---- MODULE Spec2Model ----
(***************************************************************************)
(* Cricket shot simulator: trajectory integrator (sim/physics.ts),         *)
(* interception search (sim/interception.ts), outcome estimator            *)
(* (sim/runsEstimator.ts) and the orchestrator (hooks/useSimulation.ts).    *)
(*                                                                         *)
(* Numbers are fixed point: time in centiseconds (cs), length in           *)
(* centimetres (cm), speed in cm/s, acceleration in cm/s^2.  A product or  *)
(* quotient that leaves the grid is rounded to the nearest grid value      *)
(* (RDiv), as the doubles of the source round to the nearest double.       *)
(* An optional value (undefined in the source) is a sequence of length     *)
(* at most one.                                                            *)
(***************************************************************************)
EXTENDS Integers, Sequences, FiniteSets, TLC

VARIABLES
  inp,         \* the arguments of useSimulation: shot, field, fielders, batsmen, options
  pc,          \* position inside the run
  loc,         \* locals of computeBallPath / simulateRollPhase while they loop
  pathResult,  \* the BallPathResult the orchestrator holds (and mutates)
  caughtInfo,  \* the catch evaluator's verdict
  icArgs,      \* the arguments earliestIntercept was called with
  intercept,   \* the InterceptionResult it returned
  estCtx,      \* the OutcomeContext estimateRuns was called with
  outcome,     \* the ShotOutcome it returned
  ret,         \* the UseSimulationValue the run returned
  shotState,   \* the shot useShotState holds
  call         \* the last operation of useShotState that was called, with its argument

vars == <<inp, pc, loc, pathResult, caughtInfo, icArgs, intercept, estCtx, outcome, ret, shotState, call>>

-----------------------------------------------------------------------------
(* Optional values and JavaScript truthiness *)

Undefined == <<>>
Some(v) == <<v>>
IsDefined(o) == o # <<>>
Get(o) == o[1]
\* a ?? b
OrElse(o, d) == IF IsDefined(o) THEN o[1] ELSE d
\* truthiness of an optional number: undefined and 0 are falsy
TruthyNum(o) == IsDefined(o) /\ o[1] # 0
\* truthiness of an optional string: undefined and "" are falsy
TruthyStr(o) == IsDefined(o) /\ o[1] # ""

\* a shot parameter is a double: finite, or NaN / +-Infinity
Num(v) == [fin |-> TRUE, v |-> v]
NaN == [fin |-> FALSE, v |-> 0]
IsFinite(n) == n.fin

-----------------------------------------------------------------------------
(* Arithmetic on the grid *)

Abs(a) == IF a < 0 THEN -a ELSE a
Min(a, b) == IF a < b THEN a ELSE b
Max(a, b) == IF a > b THEN a ELSE b

\* a / b rounded to the nearest integer (b > 0)
RDiv(a, b) == IF a >= 0 THEN (2 * a + b) \div (2 * b) ELSE -((2 * (-a) + b) \div (2 * b))

RECURSIVE SqrtSearch(_, _, _)
SqrtSearch(n, lo, hi) ==
  IF lo >= hi THEN lo
  ELSE LET mid == (lo + hi + 1) \div 2
       IN IF mid * mid <= n THEN SqrtSearch(n, mid, hi) ELSE SqrtSearch(n, lo, mid - 1)

\* floor of the square root (Math.sqrt, Math.hypot on the grid)
ISqrt(n) == IF n <= 0 THEN 0 ELSE SqrtSearch(n, 0, 46340)

\* Math.sin / Math.cos of degToRad(deg), times 1000, for the angles the shots use
Sin1000(deg) ==
  CASE deg = 0 -> 0 [] deg = 10 -> 174 [] deg = 35 -> 574 [] deg = 60 -> 866 [] deg = 90 -> 1000
    [] OTHER -> 0
Cos1000(deg) ==
  CASE deg = 0 -> 1000 [] deg = 10 -> 985 [] deg = 35 -> 819 [] deg = 60 -> 500 [] deg = 90 -> 0
    [] OTHER -> 1000

\* mutant: the exponent has lost its sign
ExpPos10000(x) == 10000 + x + RDiv(x * x, 20000)

\* 10000 * Math.exp(-x / 10000), by the series 1 - x + x^2/2 - x^3/6 (|x| <= 10000)
ExpNeg10000(x) ==
  10000 - x + RDiv(x * x, 20000) - RDiv(RDiv(x * x, 10000) * x, 60000)

-----------------------------------------------------------------------------
(* Constants of sim/physics.ts *)

GRAVITY == 981
\* 0.5 * AIR_DENSITY * AIR_DRAG_COEFFICIENT * BALL_CROSS_SECTION / BALL_MASS
\* = 0.0055951 per metre = 56 per million per centimetre
DRAG_PER_MILLION == 56
DEFAULT_TIME_STEP == 2
MAX_SIMULATION_TIME == 1200
SURFACE_DAMPING_PCT == 82
SPIN_DECAY_PCT == 10
BOUNCE_VERTICAL_THRESHOLD == 120
MIN_ROLLING_SPEED == 40

\* FRICTION_COEFFICIENTS (types.ts), times 10000
FRICTION_COEFFICIENTS(friction) ==
  CASE friction = "slow" -> 6500 [] friction = "average" -> 5500 [] friction = "fast" -> 4500

magnitude2D(x, y) == ISqrt(x * x + y * y)
magnitude3D(x, y, z) == ISqrt(x * x + y * y + z * z)

createSample(time, pos, vel, phase, pathDistance, event) ==
  [ time |-> time,
    x |-> pos.x, y |-> pos.y, z |-> pos.z,
    vx |-> vel.x, vy |-> vel.y, vz |-> vel.z,
    speed |-> magnitude3D(vel.x, vel.y, vel.z),
    distanceFromOrigin |-> magnitude2D(pos.x, pos.y),
    pathDistance |-> pathDistance,
    phase |-> phase,
    event |-> event ]

Vec(x, y, z) == [x |-> x, y |-> y, z |-> z]

\* cm/s^2
computeDragAcceleration(vel) ==
  LET speed == magnitude3D(vel.x, vel.y, vel.z)
  IN IF speed = 0 THEN 0 ELSE RDiv(DRAG_PER_MILLION * speed * speed, 1000000)

\* spinInfluence is in thousandths, bounceRetention in hundredths
applyBounce(vel, bounceRetention, spinInfluence) ==
  LET keep == 10000 - RDiv(spinInfluence * SPIN_DECAY_PCT, 10)
  IN Vec(RDiv(RDiv(vel.x * SURFACE_DAMPING_PCT, 100) * keep, 10000),
         RDiv(RDiv(vel.y * SURFACE_DAMPING_PCT, 100) * keep, 10000),
         -RDiv(vel.z * bounceRetention, 100))

\* in thousandths
computeSpinInfluence(spinRpm, speed) ==
  IF speed <= 0 THEN 0
  ELSE LET spinRatio == Min(RDiv(spinRpm * 1000, 3000), 1000)
       IN RDiv(spinRatio * Min(RDiv(speed * 1000, 5000), 1000), 1000)

\* per second, times 10000
decayRateForFriction(friction) == RDiv(FRICTION_COEFFICIENTS(friction) * 115, 100)

\* unit vector times 1000
normalise2D(vx, vy) ==
  LET magnitude == magnitude2D(vx, vy)
  IN IF magnitude = 0 THEN [x |-> 0, y |-> 0]
     ELSE [x |-> RDiv(vx * 1000, magnitude), y |-> RDiv(vy * 1000, magnitude)]

-----------------------------------------------------------------------------
(* computeBallPath and simulateRollPhase, one action per loop iteration *)

timeStepOf(options) == OrElse(options.timeStep, DEFAULT_TIME_STEP)
maxTimeOf(options) == OrElse(options.maxTime, MAX_SIMULATION_TIME)

\* the velocity the shot launches with (physics.ts 223-234); the shot has passed validation
launchVelocity(shot) ==
  LET speed == shot.speed.v
      horizontalSpeed == RDiv(speed * Cos1000(shot.elevation.v), 1000)
  IN Vec(RDiv(horizontalSpeed * Sin1000(shot.azimuth.v), 1000),
         RDiv(horizontalSpeed * Cos1000(shot.azimuth.v), 1000),
         RDiv(speed * Sin1000(shot.elevation.v), 1000))

NotStarted == [started |-> FALSE]

\* physics.ts 217-244: the locals, and the launch sample
Launch ==
  /\ pc = "compute"
  /\ LET velocity == launchVelocity(Get(inp.shot))
         position == Get(inp.shot).launchPosition
     IN loc' = [ started |-> TRUE,
                 time |-> 0,
                 position |-> position,
                 velocity |-> velocity,
                 cumulativeDistance |-> 0,
                 isRolling |-> FALSE,
                 boundarySample |-> Undefined,
                 rollStopSample |-> Undefined,
                 isSix |-> FALSE,
                 samples |-> <<createSample(0, position, velocity, "flight", 0, "launch")>>,
                 bounceSamples |-> <<>>,
                 direction |-> [x |-> 0, y |-> 0],
                 currentSpeed |-> 0 ]
  /\ pc' = "flight"
  /\ UNCHANGED <<shotState, call, inp, pathResult, caughtInfo, icArgs, intercept, estCtx, outcome, ret>>

\* one Euler step: the state after physics.ts 247-273
eulerStep(l, timeStep) ==
  LET v == l.velocity
      p == l.position
      dragAccel == computeDragAcceleration(v)
      speedMagnitude == magnitude3D(v.x, v.y, v.z)
      ax == IF speedMagnitude = 0 THEN 0 ELSE -RDiv(v.x * dragAccel, speedMagnitude)
      ay == IF speedMagnitude = 0 THEN 0 ELSE -RDiv(v.y * dragAccel, speedMagnitude)
      az == IF speedMagnitude = 0 THEN -GRAVITY
            ELSE -GRAVITY - RDiv(v.z * dragAccel, speedMagnitude)
      newVx == v.x + RDiv(ax * timeStep, 100)
      newVy == v.y + RDiv(ay * timeStep, 100)
      newVz == v.z + RDiv(az * timeStep, 100)
      nextX == p.x + RDiv(newVx * timeStep, 100)
      nextY == p.y + RDiv(newVy * timeStep, 100)
      nextZ == Max(p.z + RDiv(newVz * timeStep, 100), 0)
      displacement == magnitude3D(nextX - p.x, nextY - p.y, nextZ - p.z)
  IN [ time |-> l.time + timeStep,
       position |-> Vec(nextX, nextY, nextZ),
       velocity |-> Vec(newVx, newVy, newVz),
       cumulativeDistance |-> l.cumulativeDistance + displacement ]

\* radius >= field.boundaryRadius, both non-negative
beyondBoundary(position, field) ==
  position.x * position.x + position.y * position.y >= field.boundaryRadius * field.boundaryRadius

\* mutant: any ball above the ground at the rope is a six
boundaryEventAboveGround(position, field) ==
  IF position.z > 0 THEN "boundary-six" ELSE "boundary-four"

\* physics.ts 278-279: the event of a boundary detected in the flight loop
boundaryEvent(position, field) ==
  IF position.z > field.ropeHeight THEN "boundary-six" ELSE "boundary-four"

\* the longest sample sequence the flight loop is followed to
MaxSamples == 24

\* physics.ts 246-311: one iteration of the flight loop
FlightStep ==
  /\ pc = "flight"
  /\ loc.time < maxTimeOf(inp.options)
  /\ Len(loc.samples) < MaxSamples
  /\ LET e == eulerStep(loc, timeStepOf(inp.options))
         time == e.time
         position == e.position
         velocity == e.velocity
         dist == e.cumulativeDistance
         moved == [loc EXCEPT !.time = time, !.position = position,
                              !.velocity = velocity, !.cumulativeDistance = dist]
     IN IF beyondBoundary(position, inp.field)
        THEN LET event == boundaryEvent(position, inp.field)
                 boundarySample == createSample(time, position, velocity, "outOfPlay", dist, event)
             IN /\ loc' = [moved EXCEPT !.boundarySample = Some(boundarySample),
                                        !.samples = Append(@, boundarySample),
                                        !.isSix = (event = "boundary-six")]
                /\ pc' = "finish"
        ELSE IF position.z <= 0 /\ velocity.z <= 0
        THEN LET bouncedVelocity ==
                   applyBounce(velocity, inp.field.bounceEnergyRetention,
                               computeSpinInfluence(Get(inp.shot).spinRpm, Get(inp.shot).speed.v))
                 bounceSample == createSample(time, position, bouncedVelocity, "bounce", dist, "bounce")
             IN IF Abs(bouncedVelocity.z) < BOUNCE_VERTICAL_THRESHOLD
                THEN LET rollStart == createSample(time, Vec(position.x, position.y, 0),
                                                   bouncedVelocity, "roll", dist, "none")
                     IN /\ loc' = [moved EXCEPT
                                     !.velocity = bouncedVelocity,
                                     !.isRolling = TRUE,
                                     !.position = Vec(position.x, position.y, 0),
                                     !.samples = @ \o <<bounceSample, rollStart>>,
                                     !.bounceSamples = Append(@, bounceSample),
                                     !.direction = normalise2D(bouncedVelocity.x, bouncedVelocity.y),
                                     !.currentSpeed = magnitude2D(bouncedVelocity.x, bouncedVelocity.y)]
                        /\ pc' = "roll"
                ELSE /\ loc' = [moved EXCEPT
                                  !.velocity = bouncedVelocity,
                                  !.samples = Append(@, bounceSample),
                                  !.bounceSamples = Append(@, bounceSample)]
                     /\ pc' = "flight"
        ELSE /\ loc' = [moved EXCEPT
                          !.samples = Append(@, createSample(time, position, velocity, "flight", dist, "none"))]
             /\ pc' = "flight"
  /\ UNCHANGED <<shotState, call, inp, pathResult, caughtInfo, icArgs, intercept, estCtx, outcome, ret>>

\* physics.ts 246: the flight loop ends because time has reached maxTime
FlightExit ==
  /\ pc = "flight"
  /\ ~(loc.time < maxTimeOf(inp.options))
  /\ pc' = "finish"
  /\ UNCHANGED <<shotState, call, inp, loc, pathResult, caughtInfo, icArgs, intercept, estCtx, outcome, ret>>

rollContinues(l, options) ==
  l.time < maxTimeOf(options) /\ l.currentSpeed > MIN_ROLLING_SPEED

\* physics.ts 165-190: one iteration of the roll loop
RollStep ==
  /\ pc = "roll"
  /\ rollContinues(loc, inp.options)
  /\ LET timeStep == timeStepOf(inp.options)
         decayRate == decayRateForFriction(inp.field.friction)
         decayFactor == ExpNeg10000(RDiv(decayRate * timeStep, 100))
         previousSpeed == loc.currentSpeed
         currentSpeed == RDiv(previousSpeed * decayFactor, 10000)
         distanceStep == RDiv((previousSpeed + currentSpeed) * timeStep, 200)
         position == Vec(loc.position.x + RDiv(loc.direction.x * distanceStep, 1000),
                         loc.position.y + RDiv(loc.direction.y * distanceStep, 1000), 0)
         dist == loc.cumulativeDistance + distanceStep
         time == loc.time + timeStep
         velocity == Vec(RDiv(loc.direction.x * currentSpeed, 1000),
                         RDiv(loc.direction.y * currentSpeed, 1000), 0)
         sample == createSample(time, position, velocity, "roll", dist, "none")
         moved == [loc EXCEPT !.time = time, !.position = position,
                              !.cumulativeDistance = dist, !.currentSpeed = currentSpeed]
     IN IF beyondBoundary(position, inp.field)
        THEN LET boundarySample == [sample EXCEPT !.phase = "outOfPlay", !.event = "boundary-four"]
             IN /\ loc' = [moved EXCEPT !.samples = @ \o <<sample, boundarySample>>,
                                        !.boundarySample = Some(boundarySample),
                                        !.rollStopSample = Some(boundarySample)]
                /\ pc' = "finish"
        ELSE /\ loc' = [moved EXCEPT !.samples = Append(@, sample)]
             /\ pc' = "roll"
  /\ UNCHANGED <<shotState, call, inp, pathResult, caughtInfo, icArgs, intercept, estCtx, outcome, ret>>

\* physics.ts 192-203: the roll loop ended without a boundary
RollExit ==
  /\ pc = "roll"
  /\ ~rollContinues(loc, inp.options)
  /\ LET stopSample == createSample(loc.time, loc.position, Vec(0, 0, 0), "stopped",
                                    loc.cumulativeDistance, "stopped")
     IN loc' = [loc EXCEPT !.samples = Append(@, stopSample),
                           !.rollStopSample = Some(stopSample)]
  /\ pc' = "finish"
  /\ UNCHANGED <<shotState, call, inp, pathResult, caughtInfo, icArgs, intercept, estCtx, outcome, ret>>

\* mutant: the closing stopped sample is pushed on every path
ballPathResultAlwaysStopped(l) ==
  LET stopped == createSample(l.time, l.position, Vec(0, 0, 0), "stopped",
                              l.cumulativeDistance, "stopped")
  IN [ samples |-> Append(l.samples, stopped),
       boundarySample |-> l.boundarySample,
       bounceSamples |-> l.bounceSamples,
       stopSample |-> stopped,
       isSix |-> l.isSix ]

\* physics.ts 313-337: what computeBallPath returns
ballPathResult(l) ==
  LET stopped == createSample(l.time, l.position, Vec(0, 0, 0), "stopped",
                              l.cumulativeDistance, "stopped")
  IN IF ~IsDefined(l.boundarySample) /\ ~l.isRolling
     THEN [ samples |-> Append(l.samples, stopped),
            boundarySample |-> Undefined,
            bounceSamples |-> l.bounceSamples,
            stopSample |-> stopped,
            isSix |-> l.isSix ]
     ELSE [ samples |-> l.samples,
            boundarySample |-> l.boundarySample,
            bounceSamples |-> l.bounceSamples,
            stopSample |-> IF IsDefined(l.boundarySample) THEN Get(l.boundarySample)
                           ELSE OrElse(l.rollStopSample, stopped),
            isSix |-> l.isSix ]

FinishPath ==
  /\ pc = "finish"
  /\ pathResult' = ballPathResult(loc)
  /\ pc' = "catch"
  /\ UNCHANGED <<shotState, call, inp, loc, caughtInfo, icArgs, intercept, estCtx, outcome, ret>>

-----------------------------------------------------------------------------
(* Fielder reach, shared by the catch evaluator and the interception search *)

\* the square of Math.hypot(sample - fielder), in cm^2
distance2D(sample, fielder) ==
  (sample.x - fielder.x) * (sample.x - fielder.x) + (sample.y - fielder.y) * (sample.y - fielder.y)

\* floor of (runSpeed * timeAvailable)^2 in cm^2, for runSpeed in cm/s and timeAvailable in cs
reachSquared(runSpeed, timeAvailable) ==
  LET p == runSpeed * timeAvailable
      a == p \div 100
      b == p % 100
  IN a * a + (200 * a * b + b * b) \div 10000

\* distance <= runSpeed * timeAvailable, for timeAvailable > 0
withinReach(distSq, runSpeed, timeAvailable) == distSq <= reachSquared(runSpeed, timeAvailable)

-----------------------------------------------------------------------------
(* sim/interception.ts *)

DEFAULT_BUFFER == 10
INTERCEPT_RUN_SPEED_FLOOR == 320
MAX_AIR_HEIGHT_FOR_CHASE == 120

\* mutant: the ground-chase ceiling is forgotten
canAttemptInterceptAnyHeight(sample) == sample.phase # "outOfPlay"

canAttemptIntercept(sample) ==
  IF sample.phase = "outOfPlay" THEN FALSE
  ELSE IF sample.phase = "flight" /\ sample.z > MAX_AIR_HEIGHT_FOR_CHASE THEN FALSE
  ELSE TRUE

\* sample.event?.startsWith('boundary')
isBoundaryEvent(sample) == sample.event \in {"boundary-four", "boundary-six"}

\* Array.prototype.findIndex on a predicate given as the set of matching indices:
\* the first matching index (1-based), 0 when there is none (-1 in the source)
findIndex(matching) == IF matching = {} THEN 0 ELSE CHOOSE i \in matching : \A j \in matching : i <= j

\* interception.ts 55-67: the fielder can be at the sample when the ball is
canReach(sample, fielder) ==
  LET runSpeed == Max(fielder.maxSpeed, INTERCEPT_RUN_SPEED_FLOOR)
      timeAvailable == sample.time - fielder.reactionTime
  IN /\ timeAvailable > 0
     /\ withinReach(distance2D(sample, fielder), runSpeed, timeAvailable)

NoBest == [found |-> FALSE, bestTime |-> 0, result |-> Undefined]

\* mutant: the first fielder of the roster that reaches the sample is kept
betterInterceptFirstReacher(best, sample, fielder, additionalBuffer) ==
  LET interceptTime == sample.time + fielder.pickupBuffer + additionalBuffer
  IN IF ~best.found
     THEN [ found |-> TRUE,
            bestTime |-> interceptTime,
            result |-> Some([ fielderId |-> Some(fielder.id),
                              interceptTime |-> Some(interceptTime),
                              interceptPosition |-> Some([x |-> sample.x, y |-> sample.y]),
                              reachedBoundary |-> FALSE ]) ]
     ELSE best

\* mutant: interceptTime <= bestTime, so that a later fielder wins a tie
betterInterceptOnTie(best, sample, fielder, additionalBuffer) ==
  LET interceptTime == sample.time + fielder.pickupBuffer + additionalBuffer
  IN IF ~best.found \/ interceptTime <= best.bestTime
     THEN [ found |-> TRUE,
            bestTime |-> interceptTime,
            result |-> Some([ fielderId |-> Some(fielder.id),
                              interceptTime |-> Some(interceptTime),
                              interceptPosition |-> Some([x |-> sample.x, y |-> sample.y]),
                              reachedBoundary |-> FALSE ]) ]
     ELSE best

\* interception.ts 69-81: the update of bestResult / bestTime by one reaching fielder
betterIntercept(best, sample, fielder, additionalBuffer) ==
  LET interceptTime == sample.time + fielder.pickupBuffer + additionalBuffer
  IN IF ~best.found \/ interceptTime < best.bestTime
     THEN [ found |-> TRUE,
            bestTime |-> interceptTime,
            result |-> Some([ fielderId |-> Some(fielder.id),
                              interceptTime |-> Some(interceptTime),
                              interceptPosition |-> Some([x |-> sample.x, y |-> sample.y]),
                              reachedBoundary |-> FALSE ]) ]
     ELSE best

\* interception.ts 54-82: the loop over the roster at one sample, from fielder k on
RECURSIVE scanFielders(_, _, _, _, _)
scanFielders(sample, fielders, k, additionalBuffer, best) ==
  IF k > Len(fielders) THEN best
  ELSE scanFielders(sample, fielders, k + 1, additionalBuffer,
                    IF canReach(sample, fielders[k])
                    THEN betterIntercept(best, sample, fielders[k], additionalBuffer)
                    ELSE best)

\* interception.ts 46-87: the loop over the samples, from index i (1-based) on
RECURSIVE scanSamples(_, _, _, _, _)
scanSamples(path, fielders, i, cutoffIndex, additionalBuffer) ==
  IF i > cutoffIndex THEN NoBest
  ELSE IF ~canAttemptIntercept(path[i])
       THEN scanSamples(path, fielders, i + 1, cutoffIndex, additionalBuffer)
       ELSE LET best == scanFielders(path[i], fielders, 1, additionalBuffer, NoBest)
            IN IF best.found THEN best
               ELSE scanSamples(path, fielders, i + 1, cutoffIndex, additionalBuffer)

NoIntercept(reachedBoundary) ==
  [ fielderId |-> Undefined, interceptTime |-> Undefined,
    interceptPosition |-> Undefined, reachedBoundary |-> reachedBoundary ]

\* buffer is optional: DEFAULT_BUFFER when omitted
earliestIntercept(path, fielders, buffer) ==
  IF Len(path) = 0 \/ Len(fielders) = 0 THEN NoIntercept(FALSE)
  ELSE LET boundaryIndex == findIndex({i \in 1..Len(path) : isBoundaryEvent(path[i])})
           \* the samples scanned are 1..cutoffIndex
           cutoffIndex == IF boundaryIndex >= 1 THEN boundaryIndex ELSE Len(path)
           best == scanSamples(path, fielders, 1, cutoffIndex, OrElse(buffer, DEFAULT_BUFFER))
       IN IF best.found THEN Get(best.result)
          ELSE NoIntercept(boundaryIndex >= 1)

-----------------------------------------------------------------------------
(* sim/runsEstimator.ts *)

TURN_BUFFER == 55
DOUBLE_MARGIN == 45
TRIPLE_MARGIN == 60
STOPPING_MARGIN == 80
MAX_RUNNING_SPEED == 810
DEFAULT_RUNNER_SPEED == 620

RECURSIVE sumCapped(_, _)
sumCapped(batsmen, k) ==
  IF k > Len(batsmen) THEN 0
  ELSE Min(batsmen[k].runnerSpeed, MAX_RUNNING_SPEED) + sumCapped(batsmen, k + 1)

\* mutant: the runner speeds are averaged without the cap
RECURSIVE sumUncapped(_, _)
sumUncapped(batsmen, k) ==
  IF k > Len(batsmen) THEN 0 ELSE batsmen[k].runnerSpeed + sumUncapped(batsmen, k + 1)
averageRunnerSpeedUncapped(batsmen) ==
  IF Len(batsmen) = 0 THEN [num |-> DEFAULT_RUNNER_SPEED, den |-> 1]
  ELSE [num |-> sumUncapped(batsmen, 1), den |-> Len(batsmen)]

\* the average as the fraction num / den (cm/s): never rounded
averageRunnerSpeed(batsmen) ==
  IF Len(batsmen) = 0 THEN [num |-> DEFAULT_RUNNER_SPEED, den |-> 1]
  ELSE [num |-> sumCapped(batsmen, 1), den |-> Len(batsmen)]

\* timeForRuns: single = pitchLength / avgSpeed + TURN_BUFFER, double = 2 single + DOUBLE_MARGIN,
\* triple = double + single + TRIPLE_MARGIN.  With avgSpeed = num / den > 0 the k-th threshold is
\* k * 100 * pitchLength * den / num + fixed(k) centiseconds, kept as the pair (k, fixed)
timeForRuns(k) ==
  CASE k = 1 -> TURN_BUFFER
    [] k = 2 -> 2 * TURN_BUFFER + DOUBLE_MARGIN
    [] k = 3 -> 3 * TURN_BUFFER + DOUBLE_MARGIN + TRIPLE_MARGIN

\* availableTime < the k-th threshold of timeForRuns, exactly (no rounding)
belowThreshold(availableTime, k, batsmen, fieldConfig) ==
  LET avg == averageRunnerSpeed(batsmen)
  IN (availableTime - timeForRuns(k)) * avg.num < k * 100 * fieldConfig.pitchLength * avg.den

\* mutant: a fourth run is all run once a fourth threshold has passed
runsFromAvailableTimeFourth(availableTime, batsmen, fieldConfig) ==
  IF belowThreshold(availableTime, 1, batsmen, fieldConfig) THEN 0
  ELSE IF belowThreshold(availableTime, 2, batsmen, fieldConfig) THEN 1
  ELSE IF belowThreshold(availableTime, 3, batsmen, fieldConfig) THEN 2
  ELSE IF (availableTime - 4 * TURN_BUFFER) * averageRunnerSpeed(batsmen).num
            < 400 * fieldConfig.pitchLength * averageRunnerSpeed(batsmen).den THEN 3
  ELSE 4

runsFromAvailableTime(availableTime, batsmen, fieldConfig) ==
  IF belowThreshold(availableTime, 1, batsmen, fieldConfig) THEN 0
  ELSE IF belowThreshold(availableTime, 2, batsmen, fieldConfig) THEN 1
  ELSE IF belowThreshold(availableTime, 3, batsmen, fieldConfig) THEN 2
  ELSE 3

Outcome(runs, isBoundary, isDismissal, dismissalType, interceptedBy, interceptTime, boundaryTime) ==
  [ runs |-> runs, isBoundary |-> isBoundary, isDismissal |-> isDismissal,
    dismissalType |-> dismissalType, interceptedBy |-> interceptedBy,
    interceptTime |-> interceptTime, boundaryTime |-> boundaryTime ]

\* mutant: the boundary sample is looked at before isSix
estimateRunsFourBeforeSix(ctx) ==
  IF IsDefined(ctx.caughtInfo)
  THEN Outcome(0, FALSE, TRUE, Some("caught"),
               Some(Get(ctx.caughtInfo).fielderId), Some(Get(ctx.caughtInfo).time), Undefined)
  ELSE IF IsDefined(ctx.boundarySample)
  THEN Outcome(4, TRUE, FALSE, Undefined, Undefined, Undefined,
               Some(Get(ctx.boundarySample).time))
  ELSE IF ctx.isSix
  THEN Outcome(6, TRUE, FALSE, Undefined, Undefined, Undefined,
               Some(IF IsDefined(ctx.boundarySample) THEN Get(ctx.boundarySample).time
                    ELSE ctx.stopSample.time))
  ELSE IF /\ IsDefined(ctx.interception)
          /\ TruthyStr(Get(ctx.interception).fielderId)
          /\ TruthyNum(Get(ctx.interception).interceptTime)
  THEN Outcome(runsFromAvailableTime(Get(Get(ctx.interception).interceptTime),
                                     ctx.batsmen, ctx.fieldConfig),
               FALSE, FALSE, Undefined, Get(ctx.interception).fielderId,
               Get(ctx.interception).interceptTime, Undefined)
  ELSE Outcome(runsFromAvailableTime(ctx.stopSample.time + STOPPING_MARGIN,
                                     ctx.batsmen, ctx.fieldConfig),
               FALSE, FALSE, Undefined, Undefined, Undefined, Undefined)

\* mutant: a catch keeps the six the integrator recorded
estimateRunsCaughtKeepsSix(ctx) ==
  IF IsDefined(ctx.caughtInfo)
  THEN Outcome(IF ctx.isSix THEN 6 ELSE 0, FALSE, TRUE, Some("caught"),
               Some(Get(ctx.caughtInfo).fielderId), Some(Get(ctx.caughtInfo).time), Undefined)
  ELSE IF ctx.isSix
  THEN Outcome(6, TRUE, FALSE, Undefined, Undefined, Undefined,
               Some(IF IsDefined(ctx.boundarySample) THEN Get(ctx.boundarySample).time
                    ELSE ctx.stopSample.time))
  ELSE IF IsDefined(ctx.boundarySample)
  THEN Outcome(4, TRUE, FALSE, Undefined, Undefined, Undefined,
               Some(Get(ctx.boundarySample).time))
  ELSE IF /\ IsDefined(ctx.interception)
          /\ TruthyStr(Get(ctx.interception).fielderId)
          /\ TruthyNum(Get(ctx.interception).interceptTime)
  THEN Outcome(runsFromAvailableTime(Get(Get(ctx.interception).interceptTime),
                                     ctx.batsmen, ctx.fieldConfig),
               FALSE, FALSE, Undefined, Get(ctx.interception).fielderId,
               Get(ctx.interception).interceptTime, Undefined)
  ELSE Outcome(runsFromAvailableTime(ctx.stopSample.time + STOPPING_MARGIN,
                                     ctx.batsmen, ctx.fieldConfig),
               FALSE, FALSE, Undefined, Undefined, Undefined, Undefined)

\* runsEstimator.ts 71-130.  ctx is the OutcomeContext: fieldConfig, batsmen,
\* boundarySample?, isSix, interception?, stopSample, caughtInfo?
estimateRuns(ctx) ==
  IF IsDefined(ctx.caughtInfo)
  THEN Outcome(0, FALSE, TRUE, Some("caught"),
               Some(Get(ctx.caughtInfo).fielderId), Some(Get(ctx.caughtInfo).time), Undefined)
  ELSE IF ctx.isSix
  THEN Outcome(6, TRUE, FALSE, Undefined, Undefined, Undefined,
               Some(IF IsDefined(ctx.boundarySample) THEN Get(ctx.boundarySample).time
                    ELSE ctx.stopSample.time))
  ELSE IF IsDefined(ctx.boundarySample)
  THEN Outcome(4, TRUE, FALSE, Undefined, Undefined, Undefined,
               Some(Get(ctx.boundarySample).time))
  ELSE IF /\ IsDefined(ctx.interception)
          /\ TruthyStr(Get(ctx.interception).fielderId)
          /\ TruthyNum(Get(ctx.interception).interceptTime)
  THEN Outcome(runsFromAvailableTime(Get(Get(ctx.interception).interceptTime),
                                     ctx.batsmen, ctx.fieldConfig),
               FALSE, FALSE, Undefined, Get(ctx.interception).fielderId,
               Get(ctx.interception).interceptTime, Undefined)
  ELSE Outcome(runsFromAvailableTime(ctx.stopSample.time + STOPPING_MARGIN,
                                     ctx.batsmen, ctx.fieldConfig),
               FALSE, FALSE, Undefined, Undefined, Undefined, Undefined)

-----------------------------------------------------------------------------
(* hooks/useSimulation.ts *)

DEFAULT_FIELDER_BUFFER == 20
CAUGHT_RADIUS == 300
AIR_CATCH_RADIUS == 250
RUN_SPEED_FLOOR == 500

\* mutant: speed < 0 where the source has speed <= 0
validateShotAllowsZero(shot) ==
  IF ~IsFinite(shot.speed) \/ shot.speed.v < 0
  THEN Some("Shot speed must be greater than zero.")
  ELSE IF ~IsFinite(shot.elevation) THEN Some("Shot elevation is invalid.")
  ELSE IF ~IsFinite(shot.azimuth) THEN Some("Shot azimuth is invalid.")
  ELSE Undefined

\* the validation message, undefined (null) when the shot is valid
validateShot(shot) ==
  IF ~IsFinite(shot.speed) \/ shot.speed.v <= 0
  THEN Some("Shot speed must be greater than zero.")
  ELSE IF ~IsFinite(shot.elevation) THEN Some("Shot elevation is invalid.")
  ELSE IF ~IsFinite(shot.azimuth) THEN Some("Shot azimuth is invalid.")
  ELSE Undefined

NotRun == [run |-> FALSE]

\* useShotState is not part of the run
NotMounted == [mounted |-> FALSE]
NoCall == [op |-> "none"]

EmptyValue(error) ==
  [ path |-> <<>>, result |-> Undefined, boundaryTime |-> Undefined,
    isSix |-> FALSE, error |-> error ]

\* useSimulation.ts 75-88
Validate ==
  /\ pc = "validate"
  /\ IF ~IsDefined(inp.shot)
     THEN ret' = EmptyValue(Undefined) /\ pc' = "done"
     ELSE IF IsDefined(validateShot(Get(inp.shot)))
     THEN ret' = EmptyValue(validateShot(Get(inp.shot))) /\ pc' = "done"
     ELSE ret' = ret /\ pc' = "compute"
  /\ UNCHANGED <<shotState, call, inp, loc, pathResult, caughtInfo, icArgs, intercept, estCtx, outcome>>

\* useSimulation.ts 121-131: the fielder can take the ball in the air at the sample
airCatchQualifies(sample, fielder) ==
  LET runSpeed == Max(fielder.maxSpeed, RUN_SPEED_FLOOR)
      timeAvailable == sample.time - fielder.reactionTime
      distance == distance2D(sample, fielder)
  IN /\ timeAvailable > 0
     /\ ~(~withinReach(distance, runSpeed, timeAvailable) \/ distance > AIR_CATCH_RADIUS * AIR_CATCH_RADIUS)

\* useSimulation.ts 168-181: the fielder can take the ball off the first bounce
bounceCatchQualifies(firstBounce, fielder) ==
  LET runSpeed == Max(fielder.maxSpeed, RUN_SPEED_FLOOR)
      timeAvailable == firstBounce.time - fielder.reactionTime
      distance == distance2D(firstBounce, fielder)
  IN /\ timeAvailable > 0
     /\ distance <= CAUGHT_RADIUS * CAUGHT_RADIUS
     /\ withinReach(distance, runSpeed, timeAvailable)

\* mutant: the loop over the roster does not stop at the first fielder that qualifies
lastAirCatcher(sample, fielders) ==
  LET qualifying == {k \in 1..Len(fielders) : airCatchQualifies(sample, fielders[k])}
  IN IF qualifying = {} THEN 0 ELSE CHOOSE k \in qualifying : \A j \in qualifying : j <= k

\* for (const fielder of fielders) { ...; break }: the first qualifying index, 0 when none
firstAirCatcher(sample, fielders) ==
  findIndex({k \in 1..Len(fielders) : airCatchQualifies(sample, fielders[k])})

\* mutant: the last fielder of the roster that qualifies takes the catch off the bounce
lastBounceCatcher(firstBounce, fielders) ==
  LET qualifying == {k \in 1..Len(fielders) : bounceCatchQualifies(firstBounce, fielders[k])}
  IN IF qualifying = {} THEN 0 ELSE CHOOSE k \in qualifying : \A j \in qualifying : j <= k

firstBounceCatcher(firstBounce, fielders) ==
  findIndex({k \in 1..Len(fielders) : bounceCatchQualifies(firstBounce, fielders[k])})

\* useSimulation.ts 104-144: the scan for a catch in the air, from sample i on
RECURSIVE scanAirCatch(_, _, _)
scanAirCatch(samples, fielders, i) ==
  IF i > Len(samples) THEN Undefined
  ELSE IF samples[i].phase = "bounce" THEN Undefined
  ELSE IF samples[i].phase # "flight" THEN scanAirCatch(samples, fielders, i + 1)
  ELSE IF samples[i].z <= 0 THEN scanAirCatch(samples, fielders, i + 1)
  ELSE LET k == firstAirCatcher(samples[i], fielders)
       IN IF k = 0 THEN scanAirCatch(samples, fielders, i + 1)
          ELSE Some([fielderId |-> fielders[k].id, time |-> samples[i].time, caughtIndex |-> i])

stoppedCopy(sample) == [sample EXCEPT !.phase = "stopped", !.event = "stopped"]

\* mutant: the catch in the air leaves the integrator's boundary sample and isSix in place
truncateAtAirCatchKeepsSix(pr, caughtIndex) ==
  LET caughtSample == stoppedCopy(pr.samples[caughtIndex])
  IN [ samples |-> Append(SubSeq(pr.samples, 1, caughtIndex - 1), caughtSample),
       boundarySample |-> pr.boundarySample,
       bounceSamples |-> <<>>,
       stopSample |-> caughtSample,
       isSix |-> pr.isSix ]

\* useSimulation.ts 146-160
truncateAtAirCatch(pr, caughtIndex) ==
  LET caughtSample == stoppedCopy(pr.samples[caughtIndex])
  IN [ samples |-> Append(SubSeq(pr.samples, 1, caughtIndex - 1), caughtSample),
       boundarySample |-> Undefined,
       bounceSamples |-> <<>>,
       stopSample |-> caughtSample,
       isSix |-> FALSE ]

\* useSimulation.ts 189-201
truncateAtBounceCatch(pr, firstBounce) ==
  LET caughtSample == stoppedCopy(firstBounce)
      bounceIndex == findIndex({i \in 1..Len(pr.samples) : pr.samples[i] = firstBounce})
  IN [ pr EXCEPT !.samples = Append(SubSeq(pr.samples, 1, bounceIndex - 1), caughtSample),
                 !.boundarySample = Undefined,
                 !.stopSample = caughtSample,
                 !.isSix = FALSE ]

\* useSimulation.ts 95-203: the catch, if any, and the path result it leaves
evaluateCatch(pr, fielders) ==
  LET air == scanAirCatch(pr.samples, fielders, 1)
  IN IF IsDefined(air)
     THEN [ caughtInfo |-> Some([fielderId |-> Get(air).fielderId, time |-> Get(air).time]),
            pathResult |-> truncateAtAirCatch(pr, Get(air).caughtIndex) ]
     ELSE IF Len(pr.bounceSamples) > 0
     THEN LET firstBounce == pr.bounceSamples[1]
              k == firstBounceCatcher(firstBounce, fielders)
          IN IF k # 0
             THEN [ caughtInfo |-> Some([fielderId |-> fielders[k].id, time |-> firstBounce.time]),
                    pathResult |-> truncateAtBounceCatch(pr, firstBounce) ]
             ELSE [caughtInfo |-> Undefined, pathResult |-> pr]
     ELSE [caughtInfo |-> Undefined, pathResult |-> pr]

\* useSimulation.ts 95-203
CatchEvaluate ==
  /\ pc = "catch"
  /\ caughtInfo' = evaluateCatch(pathResult, inp.fielders).caughtInfo
  /\ pathResult' = evaluateCatch(pathResult, inp.fielders).pathResult
  /\ pc' = "intercept"
  /\ UNCHANGED <<shotState, call, inp, loc, icArgs, intercept, estCtx, outcome, ret>>

\* mutant: the splice leaves the integrator's boundary sample and isSix in place
spliceInterceptKeepsBoundary(pr, ic) ==
  LET samples == pr.samples
      interceptTime == Get(ic.interceptTime)
      interceptPosition == Get(ic.interceptPosition)
      insertIndex == findIndex({i \in 1..Len(samples) : samples[i].time >= interceptTime})
      previousSample == IF insertIndex > 1 THEN samples[insertIndex - 1] ELSE samples[1]
      segmentDistance == magnitude2D(interceptPosition.x - previousSample.x,
                                     interceptPosition.y - previousSample.y)
      interceptSample ==
        [ time |-> interceptTime,
          x |-> interceptPosition.x, y |-> interceptPosition.y, z |-> 0,
          vx |-> 0, vy |-> 0, vz |-> 0,
          speed |-> 0,
          distanceFromOrigin |-> magnitude2D(interceptPosition.x, interceptPosition.y),
          pathDistance |-> previousSample.pathDistance + segmentDistance,
          phase |-> "stopped",
          event |-> "stopped" ]
      truncatedSamples == IF insertIndex >= 1 THEN SubSeq(samples, 1, insertIndex - 1) ELSE samples
      n == Len(truncatedSamples)
      \* |dx| < 1e-6 m and |dy| < 1e-6 m, that is 1e-4 cm
      coincides == /\ n > 0
                   /\ 10000 * Abs(truncatedSamples[n].x - interceptSample.x) < 1
                   /\ 10000 * Abs(truncatedSamples[n].y - interceptSample.y) < 1
  IN [ pr EXCEPT !.samples = IF coincides THEN [truncatedSamples EXCEPT ![n] = interceptSample]
                             ELSE Append(truncatedSamples, interceptSample),
                 !.stopSample = interceptSample ]

\* useSimulation.ts 217-280: the path with the intercept spliced in
spliceIntercept(pr, ic) ==
  LET samples == pr.samples
      interceptTime == Get(ic.interceptTime)
      interceptPosition == Get(ic.interceptPosition)
      insertIndex == findIndex({i \in 1..Len(samples) : samples[i].time >= interceptTime})
      previousSample == IF insertIndex > 1 THEN samples[insertIndex - 1] ELSE samples[1]
      segmentDistance == magnitude2D(interceptPosition.x - previousSample.x,
                                     interceptPosition.y - previousSample.y)
      interceptSample ==
        [ time |-> interceptTime,
          x |-> interceptPosition.x, y |-> interceptPosition.y, z |-> 0,
          vx |-> 0, vy |-> 0, vz |-> 0,
          speed |-> 0,
          distanceFromOrigin |-> magnitude2D(interceptPosition.x, interceptPosition.y),
          pathDistance |-> previousSample.pathDistance + segmentDistance,
          phase |-> "stopped",
          event |-> "stopped" ]
      truncatedSamples == IF insertIndex >= 1 THEN SubSeq(samples, 1, insertIndex - 1) ELSE samples
      n == Len(truncatedSamples)
      \* |dx| < 1e-6 m and |dy| < 1e-6 m, that is 1e-4 cm
      coincides == /\ n > 0
                   /\ 10000 * Abs(truncatedSamples[n].x - interceptSample.x) < 1
                   /\ 10000 * Abs(truncatedSamples[n].y - interceptSample.y) < 1
  IN [ pr EXCEPT !.samples = IF coincides THEN [truncatedSamples EXCEPT ![n] = interceptSample]
                             ELSE Append(truncatedSamples, interceptSample),
                 !.boundarySample = Undefined,
                 !.stopSample = interceptSample,
                 !.isSix = FALSE ]

\* mutant: the test of caughtInfo is forgotten
spliceAppliesEvenIfCaught(ic, caught) ==
  /\ TruthyStr(ic.fielderId)
  /\ TruthyNum(ic.interceptTime)
  /\ IsDefined(ic.interceptPosition)

\* useSimulation.ts 211-216
spliceApplies(ic, caught) ==
  /\ TruthyStr(ic.fielderId)
  /\ TruthyNum(ic.interceptTime)
  /\ IsDefined(ic.interceptPosition)
  /\ ~IsDefined(caught)

\* mutant: the orchestrator falls back on the default of the interception search
interceptBufferOfSearchDefault(options) == OrElse(options.interceptBuffer, DEFAULT_BUFFER)

\* useSimulation.ts 208: interceptBuffer ?? DEFAULT_FIELDER_BUFFER
interceptBufferOf(options) == OrElse(options.interceptBuffer, DEFAULT_FIELDER_BUFFER)

\* useSimulation.ts 205-281
InterceptAndSplice ==
  /\ pc = "intercept"
  /\ LET buffer == Some(interceptBufferOf(inp.options))
         ic == earliestIntercept(pathResult.samples, inp.fielders, buffer)
     IN /\ icArgs' = [run |-> TRUE, path |-> pathResult.samples,
                      fielders |-> inp.fielders, buffer |-> buffer]
        /\ intercept' = ic
        /\ pathResult' = IF spliceApplies(ic, caughtInfo) THEN spliceIntercept(pathResult, ic)
                         ELSE pathResult
  /\ pc' = "estimate"
  /\ UNCHANGED <<shotState, call, inp, loc, caughtInfo, estCtx, outcome, ret>>

\* useSimulation.ts 95-291: the outcome of the run on the integrator's path result pr
simulationOutcome(pr, field, fielders, batsmen, options) ==
  LET caught == evaluateCatch(pr, fielders)
      ic == earliestIntercept(caught.pathResult.samples, fielders,
                              Some(interceptBufferOf(options)))
      spliced == IF spliceApplies(ic, caught.caughtInfo)
                 THEN spliceIntercept(caught.pathResult, ic)
                 ELSE caught.pathResult
  IN estimateRuns([ run |-> TRUE,
                    fieldConfig |-> field,
                    batsmen |-> batsmen,
                    boundarySample |-> spliced.boundarySample,
                    isSix |-> spliced.isSix,
                    interception |-> Some(ic),
                    stopSample |-> spliced.stopSample,
                    caughtInfo |-> caught.caughtInfo ])

\* useSimulation.ts 283-305
EstimateAndReturn ==
  /\ pc = "estimate"
  /\ LET ctx == [ run |-> TRUE,
                  fieldConfig |-> inp.field,
                  batsmen |-> inp.batsmen,
                  boundarySample |-> pathResult.boundarySample,
                  isSix |-> pathResult.isSix,
                  interception |-> Some(intercept),
                  stopSample |-> pathResult.stopSample,
                  caughtInfo |-> caughtInfo ]
     IN /\ estCtx' = ctx
        /\ outcome' = estimateRuns(ctx)
        /\ ret' = [ path |-> pathResult.samples,
                    result |-> Some([ samples |-> pathResult.samples,
                                      outcome |-> estimateRuns(ctx),
                                      interception |-> Some(intercept) ]),
                    boundaryTime |-> IF IsDefined(pathResult.boundarySample)
                                     THEN Some(Get(pathResult.boundarySample).time)
                                     ELSE Undefined,
                    isSix |-> pathResult.isSix,
                    error |-> Undefined ]
  /\ pc' = "done"
  /\ UNCHANGED <<shotState, call, inp, loc, pathResult, caughtInfo, icArgs, intercept>>

-----------------------------------------------------------------------------
(* The runs of the simulation: useSimulation on inputs drawn from bounded sets *)

\* the longest roster
MaxRoster == 2

Shot(speed, azimuth, elevation) ==
  [ speed |-> speed, azimuth |-> azimuth, elevation |-> elevation,
    launchPosition |-> Vec(0, 0, 100), spinRpm |-> 1500 ]

Shots ==
  { Undefined,
    Some(Shot(NaN, Num(0), Num(10))),
    Some(Shot(Num(-500), Num(0), Num(10))),
    Some(Shot(Num(0), Num(0), Num(10))),
    Some(Shot(Num(1500), NaN, Num(10))),
    Some(Shot(Num(1500), Num(0), NaN)),
    Some(Shot(Num(1), Num(0), Num(0))),
    Some(Shot(Num(1500), Num(0), Num(10))),
    Some(Shot(Num(3000), Num(0), Num(10))),
    Some(Shot(Num(2000), Num(0), Num(35))),
    Some(Shot(Num(1200), Num(90), Num(60))) }

Field(boundaryRadius, friction) ==
  [ boundaryRadius |-> boundaryRadius, pitchLength |-> 2012, innerCircleRadius |-> 2743,
    friction |-> friction, bounceEnergyRetention |-> 55, ropeHeight |-> 70 ]

Fields == { Field(2000, "average"), Field(6500, "fast") }

Fielder(id, x, y, reactionTime, maxSpeed, pickupBuffer) ==
  [ id |-> id, x |-> x, y |-> y, reactionTime |-> reactionTime, maxSpeed |-> maxSpeed,
    acceleration |-> 360, pickupBuffer |-> pickupBuffer ]

FielderPool ==
  { Fielder("deep", 0, 1800, 90, 750, 50),
    Fielder("cover", 100, 1800, 90, 750, 50),
    Fielder("mid", 100, 1050, 50, 780, 10),
    Fielder("point", -100, 1080, 40, 760, 20),
    Fielder("close", 0, 400, 10, 700, 60) }

\* the rosters: sequences of distinct fielders of the pool, at most MaxRoster long
Rosters ==
  UNION { { r \in [1..n -> FielderPool] : \A i, j \in 1..n : i # j => r[i] # r[j] } : n \in 0..MaxRoster }

Batsman(id, runnerSpeed) == [id |-> id, runnerSpeed |-> runnerSpeed]

BatsmenChoices ==
  { <<>>, <<Batsman("striker", 650), Batsman("non-striker", 640)>> }

Options(timeStep, maxTime, interceptBuffer) ==
  [timeStep |-> timeStep, maxTime |-> maxTime, interceptBuffer |-> interceptBuffer]

OptionChoices ==
  { Options(Some(25), Some(400), Undefined),
    Options(Some(25), Some(400), Some(30)),
    Options(Undefined, Some(6), Undefined) }

Init ==
  /\ inp \in [shot : Shots, field : Fields, fielders : Rosters,
              batsmen : BatsmenChoices, options : OptionChoices]
  /\ shotState = NotMounted
  /\ call = NoCall
  /\ pc = "validate"
  /\ loc = NotStarted
  /\ pathResult = NotRun
  /\ caughtInfo = Undefined
  /\ icArgs = NotRun
  /\ intercept = NotRun
  /\ estCtx = NotRun
  /\ outcome = NotRun
  /\ ret = NotRun

Next ==
  \/ Validate
  \/ Launch
  \/ FlightStep
  \/ FlightExit
  \/ RollStep
  \/ RollExit
  \/ FinishPath
  \/ CatchEvaluate
  \/ InterceptAndSplice
  \/ EstimateAndReturn

Spec == Init /\ [][Next]_vars

\* the runs with the time steps a caller can supply: one that divides maxTime, one that does
\* not, the default one, and zero; no fielders, no batsmen
StepOptionChoices ==
  OptionChoices \cup { Options(Some(30), Some(100), Undefined),
                       Options(Some(0), Some(100), Undefined) }

\* the shots, and one played along the ground at 1.5 m/s, which rolls to a stop
StepShots == Shots \cup { Some(Shot(Num(150), Num(0), Num(0))) }

\* the fields, and one of each friction level with the rope 30 m out
StepFields == Fields \cup { Field(3000, f) : f \in {"slow", "average", "fast"} }

InitSteps ==
  /\ inp \in [shot : StepShots, field : StepFields, fielders : {<<>>},
              batsmen : {<<>>}, options : StepOptionChoices]
  /\ shotState = NotMounted
  /\ call = NoCall
  /\ pc = "validate"
  /\ loc = NotStarted
  /\ pathResult = NotRun
  /\ caughtInfo = Undefined
  /\ icArgs = NotRun
  /\ intercept = NotRun
  /\ estCtx = NotRun
  /\ outcome = NotRun
  /\ ret = NotRun

SpecSteps == InitSteps /\ [][Next]_vars

\* the runs of valid shots with rosters of fielders that stand close together on the line
\* of the shot, one of them quicker to pick the ball up
CloseFielders ==
  { Fielder("deep", 0, 1800, 90, 750, 50),
    Fielder("cover", 100, 1800, 90, 750, 50),
    Fielder("sweeper", -100, 1800, 90, 750, 30) }

CloseRosters ==
  UNION { { r \in [1..n -> CloseFielders] : \A i, j \in 1..n : i # j => r[i] # r[j] } : n \in 0..MaxRoster }

InitRosterOrder ==
  /\ inp \in [shot : { s \in Shots : IsDefined(s) /\ ~IsDefined(validateShot(Get(s))) },
              field : Fields, fielders : CloseRosters,
              batsmen : BatsmenChoices, options : OptionChoices]
  /\ shotState = NotMounted
  /\ call = NoCall
  /\ pc = "validate"
  /\ loc = NotStarted
  /\ pathResult = NotRun
  /\ caughtInfo = Undefined
  /\ icArgs = NotRun
  /\ intercept = NotRun
  /\ estCtx = NotRun
  /\ outcome = NotRun
  /\ ret = NotRun

SpecRosterOrder == InitRosterOrder /\ [][Next]_vars

\* the runs of valid shots with a fielder in the deep, wide of the line of the shot, who
\* gets to the ball only as it rolls up to the rope, alone or with one on the line
RopeFielders ==
  { Fielder("long", 1100, 1650, 35, 750, 50),
    Fielder("deep", 0, 1800, 90, 750, 50) }

RopeRosters ==
  UNION { { r \in [1..n -> RopeFielders] : \A i, j \in 1..n : i # j => r[i] # r[j] } : n \in 0..MaxRoster }

InitRope ==
  /\ inp \in [shot : { s \in Shots : IsDefined(s) /\ ~IsDefined(validateShot(Get(s))) },
              field : Fields, fielders : RopeRosters,
              batsmen : BatsmenChoices, options : OptionChoices]
  /\ shotState = NotMounted
  /\ call = NoCall
  /\ pc = "validate"
  /\ loc = NotStarted
  /\ pathResult = NotRun
  /\ caughtInfo = Undefined
  /\ icArgs = NotRun
  /\ intercept = NotRun
  /\ estCtx = NotRun
  /\ outcome = NotRun
  /\ ret = NotRun

SpecRope == InitRope /\ [][Next]_vars

\* what a stage can throw: an Error instance, or a value that is not one
Thrown ==
  { [isError |-> TRUE, message |-> "Cannot read properties of null"],
    [isError |-> FALSE, message |-> "not an Error"] }

\* useSimulation.ts 311: error instanceof Error ? error : new Error('Failed to run simulation')
\* (an error is kept as its message)
caughtError(thrown) ==
  IF thrown.isError THEN thrown.message ELSE "Failed to run simulation"

\* useSimulation.ts 90, 306-314: a stage inside the try block throws, and the catch clause
\* returns the value for a failed run
StageThrows ==
  /\ pc \in {"compute", "flight", "roll", "finish", "catch", "intercept", "estimate"}
  /\ \E thrown \in Thrown : ret' = EmptyValue(Some(caughtError(thrown)))
  /\ pc' = "done"
  /\ UNCHANGED <<shotState, call, inp, loc, pathResult, caughtInfo, icArgs, intercept, estCtx, outcome>>

SpecFaults == InitSteps /\ [][Next \/ StageThrows]_vars

-----------------------------------------------------------------------------
(* hooks/useShotState.ts: the shot the controls edit, handed to useSimulation on render *)

\* a % b of JavaScript, for b > 0: the remainder has the sign of a
jsRemainder(a, b) == IF a >= 0 THEN a % b ELSE -((-a) % b)

\* Math.round of a number given in tenths: halves go up
MathRound(tenths) == (tenths + 5) \div 10

\* mutant: the upper limit is forgotten
clampFromBelow(value, min, max) == Max(value, min)

clamp(value, min, max) == Min(Max(value, min), max)

\* types.ts 202-208
createDefaultShot == Shot(Num(3000), Num(0), Num(10))

\* useShotState.ts 25: no initialShot option is given
initialShot == createDefaultShot

\* the arguments the operations are called with: degrees, cm/s, tenths of an rpm
AzimuthArgs == {-270, 35, 360, 450}
ElevationArgs == {-5, 35, 70}
SpeedArgs == {-500, 0, 2000}
SpinArgs == {-4, 15005}

\* useShotState.ts 36-44
updateAzimuth ==
  /\ pc = "edit"
  /\ \E value \in AzimuthArgs :
       /\ shotState' = [shotState EXCEPT !.azimuth = Num(jsRemainder(jsRemainder(value, 360) + 360, 360))]
       /\ call' = [op |-> "updateAzimuth", value |-> value]
  /\ UNCHANGED <<inp, pc, loc, pathResult, caughtInfo, icArgs, intercept, estCtx, outcome, ret>>

\* useShotState.ts 46-54
updateElevation ==
  /\ pc = "edit"
  /\ \E value \in ElevationArgs :
       /\ shotState' = [shotState EXCEPT !.elevation = Num(clamp(value, 0, 60))]
       /\ call' = [op |-> "updateElevation", value |-> value]
  /\ UNCHANGED <<inp, pc, loc, pathResult, caughtInfo, icArgs, intercept, estCtx, outcome, ret>>

\* useShotState.ts 56-64
updateSpeed ==
  /\ pc = "edit"
  /\ \E value \in SpeedArgs :
       /\ shotState' = [shotState EXCEPT !.speed = Num(Max(value, 0))]
       /\ call' = [op |-> "updateSpeed", value |-> value]
  /\ UNCHANGED <<inp, pc, loc, pathResult, caughtInfo, icArgs, intercept, estCtx, outcome, ret>>

\* useShotState.ts 66-74
updateSpin ==
  /\ pc = "edit"
  /\ \E value \in SpinArgs :
       /\ shotState' = [shotState EXCEPT !.spinRpm = Max(0, MathRound(value))]
       /\ call' = [op |-> "updateSpin", value |-> value]
  /\ UNCHANGED <<inp, pc, loc, pathResult, caughtInfo, icArgs, intercept, estCtx, outcome, ret>>

\* useShotState.ts 34
reset ==
  /\ pc = "edit"
  /\ shotState' = initialShot
  /\ call' = [op |-> "reset"]
  /\ UNCHANGED <<inp, pc, loc, pathResult, caughtInfo, icArgs, intercept, estCtx, outcome, ret>>

\* App.tsx 27-39: the component renders and useSimulation runs on the shot held
Render ==
  /\ pc = "edit"
  /\ inp' = [ shot |-> Some(shotState), field |-> Field(6500, "fast"), fielders |-> <<>>,
              batsmen |-> <<>>, options |-> Options(Some(25), Some(400), Undefined) ]
  /\ pc' = "validate"
  /\ UNCHANGED <<shotState, call, loc, pathResult, caughtInfo, icArgs, intercept, estCtx, outcome, ret>>

InitShotState ==
  /\ shotState = initialShot
  /\ call = NoCall
  /\ inp = NotRun
  /\ pc = "edit"
  /\ loc = NotStarted
  /\ pathResult = NotRun
  /\ caughtInfo = Undefined
  /\ icArgs = NotRun
  /\ intercept = NotRun
  /\ estCtx = NotRun
  /\ outcome = NotRun
  /\ ret = NotRun

NextShotState ==
  \/ updateAzimuth
  \/ updateElevation
  \/ updateSpeed
  \/ updateSpin
  \/ reset
  \/ Render
  \/ Next

SpecShotState == InitShotState /\ [][NextShotState]_vars

-----------------------------------------------------------------------------
(* earliestIntercept as a function of its arguments: any well-formed path, any roster,
   the buffer given or omitted *)

\* the longest path
MaxPathLen == 3

\* the i-th sample of a path is at time 50 i cs, 6 i m down the pitch line
PathSample(i, kind) ==
  LET phase == CASE kind \in {"flightHigh", "flightLow"} -> "flight"
                 [] kind = "roll" -> "roll"
                 [] kind = "boundary" -> "outOfPlay"
                 [] kind = "stopped" -> "stopped"
      event == CASE kind = "boundary" -> "boundary-four"
                 [] kind = "stopped" -> "stopped"
                 [] OTHER -> "none"
      z == CASE kind = "flightHigh" -> 300 [] kind = "flightLow" -> 100 [] OTHER -> 0
      v == IF kind = "stopped" THEN 0 ELSE 1200
  IN createSample(50 * i, Vec(0, 600 * i, z), Vec(0, v, 0), phase, 600 * i, event)

MovingKinds == {"flightHigh", "flightLow", "roll"}
TerminalKinds == {"boundary", "stopped"}

\* moving samples, then at most one terminal sample, which is the last
Paths ==
  UNION { { [i \in 1..n |-> PathSample(i, k[i])] :
            k \in { q \in [1..n -> MovingKinds \cup TerminalKinds] :
                      \A i \in 1..n : q[i] \in TerminalKinds => i = n } } :
          n \in 0..MaxPathLen }

Idle ==
  /\ inp = NotRun
  /\ shotState = NotMounted
  /\ call = NoCall
  /\ loc = NotStarted
  /\ pathResult = NotRun
  /\ caughtInfo = Undefined
  /\ ret = NotRun

InitIntercept ==
  /\ Idle
  /\ pc = "call"
  /\ icArgs \in [run : {TRUE}, path : Paths, fielders : Rosters,
                 buffer : {Undefined, Some(0), Some(30)}]
  /\ intercept = NotRun
  /\ estCtx = NotRun
  /\ outcome = NotRun

InterceptCall ==
  /\ pc = "call"
  /\ intercept' = earliestIntercept(icArgs.path, icArgs.fielders, icArgs.buffer)
  /\ pc' = "returned"
  /\ UNCHANGED <<shotState, call, inp, loc, pathResult, caughtInfo, icArgs, estCtx, outcome, ret>>

SpecIntercept == InitIntercept /\ [][InterceptCall]_vars

-----------------------------------------------------------------------------
(* estimateRuns as a function of its context *)

\* the times of the contexts are 1.5 s apart, up to 1.5 MaxEstTime s
MaxEstTime == 9

EstTimes == { 150 * i : i \in 1..MaxEstTime }

EstSample(time, phase, event) ==
  createSample(time, Vec(0, 2000, 0), Vec(0, 0, 0), phase, 2000, event)

EstInterceptions ==
  { Undefined, Some(NoIntercept(FALSE)), Some(NoIntercept(TRUE)) }
    \cup { Some([ fielderId |-> Some("deep"), interceptTime |-> Some(t),
                  interceptPosition |-> Some([x |-> 0, y |-> 1800]),
                  reachedBoundary |-> FALSE ]) : t \in EstTimes }

InitEstimate ==
  /\ Idle
  /\ pc = "call"
  /\ icArgs = NotRun
  /\ intercept = NotRun
  /\ estCtx \in [ run : {TRUE},
                  fieldConfig : {Field(6500, "average")},
                  batsmen : BatsmenChoices \cup {<<Batsman("striker", 900)>>},
                  boundarySample : {Undefined, Some(EstSample(300, "outOfPlay", "boundary-four"))},
                  isSix : BOOLEAN,
                  interception : EstInterceptions,
                  stopSample : { EstSample(t, "stopped", "stopped") : t \in EstTimes },
                  caughtInfo : {Undefined, Some([fielderId |-> "close", time |-> 150])} ]
  /\ outcome = NotRun

EstimateCall ==
  /\ pc = "call"
  /\ outcome' = estimateRuns(estCtx)
  /\ pc' = "returned"
  /\ UNCHANGED <<shotState, call, inp, loc, pathResult, caughtInfo, icArgs, intercept, estCtx, ret>>

SpecEstimate == InitEstimate /\ [][EstimateCall]_vars

\* the simulation's outcomes together with those of estimateRuns on any context
SpecOutcomes == (Init \/ InitEstimate) /\ [][Next \/ EstimateCall]_vars

-----------------------------------------------------------------------------
(* Properties *)

Terminal(sample) == sample.phase \in {"stopped", "outOfPlay"}
Succeeded == pc = "done" /\ IsDefined(ret.result)
ShotInvalid(shot) ==
  \/ ~shot.speed.fin
  \/ shot.speed.v <= 0
  \/ ~shot.elevation.fin
  \/ ~shot.azimuth.fin
StagesNotRun ==
  /\ loc = NotStarted
  /\ pathResult = NotRun
  /\ caughtInfo = Undefined
  /\ icArgs = NotRun
  /\ intercept = NotRun
  /\ estCtx = NotRun
  /\ outcome = NotRun

\* C1: the path returned for a valid shot has non-decreasing sample times and exactly one
\* terminal sample (phase stopped or outOfPlay), which is its last sample, on every route
\* (no fielder involved, catch truncation, intercept splice).
C1_OneTerminalSampleLast ==
  Succeeded =>
    LET p == ret.path
    IN /\ \A i \in 1..(Len(p) - 1) : p[i].time <= p[i + 1].time
       /\ Cardinality({i \in 1..Len(p) : Terminal(p[i])}) = 1
       /\ Terminal(p[Len(p)])

\* C2: a shot that fails validation returns an error, an empty path, a null result and
\* isSix = false, and no stage ever runs for it; a shot that passes returns no error and a
\* result.
C2_ValidationGatesTheRun ==
  IsDefined(inp.shot) =>
    IF ShotInvalid(Get(inp.shot))
    THEN /\ StagesNotRun
         /\ pc = "done" => /\ IsDefined(ret.error)
                           /\ ret.path = <<>>
                           /\ ret.result = Undefined
                           /\ ret.isSix = FALSE
    ELSE pc = "done" => ret.error = Undefined /\ IsDefined(ret.result)

\* Scenario D: speed -5 m/s has been refused
C2_Witness ==
  /\ pc = "done"
  /\ IsDefined(inp.shot)
  /\ Get(inp.shot).speed = Num(-500)
  /\ IsDefined(ret.error)
  /\ ret.path = <<>>

\* C3: when the catch evaluator finds a catch, the outcome is a dismissal 'caught' with 0
\* runs, by the catching fielder at the time of the catch sample, whatever the integrator
\* recorded and whatever the interception search finds, and the returned path is the
\* integrator's path cut at the catch sample: no intercept is spliced in.
C3_CatchTakesPriority ==
  pc = "done" /\ IsDefined(caughtInfo) =>
    LET o == Get(ret.result).outcome
        c == Get(caughtInfo)
        n == Len(ret.path)
    IN /\ o.runs = 0
       /\ o.isDismissal
       /\ ~o.isBoundary
       /\ o.dismissalType = Some("caught")
       /\ o.interceptedBy = Some(c.fielderId)
       /\ \E k \in 1..Len(inp.fielders) : inp.fielders[k].id = c.fielderId
       /\ o.interceptTime = Some(ret.path[n].time)
       /\ n <= Len(loc.samples)
       /\ loc.samples[n].phase \in {"flight", "bounce"}
       /\ ret.path = Append(SubSeq(loc.samples, 1, n - 1), stoppedCopy(loc.samples[n]))

\* a catch on a trajectory the integrator ended at the boundary, with the interception
\* search naming a fielder as well
C3_Witness ==
  /\ pc = "done"
  /\ IsDefined(caughtInfo)
  /\ IsDefined(loc.boundarySample)
  /\ TruthyStr(intercept.fielderId)
  /\ Get(ret.result).outcome.isDismissal

HasIntercept(ic) == IsDefined(ic.fielderId) /\ IsDefined(ic.interceptTime)

\* C4: estimateRuns answers by strict priority: caughtInfo, then isSix, then boundarySample,
\* then an interception with a fielder and a time, then the stop sample.
C4_EstimatePriority ==
  pc = "returned" /\ outcome # NotRun =>
    LET c == estCtx
        o == outcome
    IN IF IsDefined(c.caughtInfo)
       THEN /\ o.runs = 0 /\ o.isDismissal /\ o.dismissalType = Some("caught")
            /\ o.interceptedBy = Some(Get(c.caughtInfo).fielderId)
            /\ o.interceptTime = Some(Get(c.caughtInfo).time)
       ELSE IF c.isSix
       THEN /\ o.runs = 6 /\ o.isBoundary /\ ~o.isDismissal
            /\ o.boundaryTime = Some(IF IsDefined(c.boundarySample)
                                     THEN Get(c.boundarySample).time ELSE c.stopSample.time)
       ELSE IF IsDefined(c.boundarySample)
       THEN /\ o.runs = 4 /\ o.isBoundary /\ ~o.isDismissal
            /\ o.boundaryTime = Some(Get(c.boundarySample).time)
       ELSE IF IsDefined(c.interception) /\ HasIntercept(Get(c.interception))
       THEN /\ o.runs = runsFromAvailableTime(Get(Get(c.interception).interceptTime),
                                              c.batsmen, c.fieldConfig)
            /\ ~o.isBoundary /\ ~o.isDismissal
            /\ o.interceptedBy = Get(c.interception).fielderId
       ELSE /\ o.runs = runsFromAvailableTime(c.stopSample.time + STOPPING_MARGIN,
                                              c.batsmen, c.fieldConfig)
            /\ ~o.isBoundary /\ ~o.isDismissal
            /\ o.interceptedBy = Undefined

\* every lower-priority input is present and the six still wins over them
C4_Witness ==
  /\ pc = "returned"
  /\ outcome # NotRun
  /\ ~IsDefined(estCtx.caughtInfo)
  /\ estCtx.isSix
  /\ IsDefined(estCtx.boundarySample)
  /\ IsDefined(estCtx.interception)
  /\ HasIntercept(Get(estCtx.interception))
  /\ outcome.runs = 6

\* C5: in every outcome produced, isBoundary holds exactly when runs is 4 or 6 and the
\* outcome is no dismissal; a running outcome never has 4 or 6 runs.
C5_BoundaryConsistency ==
  outcome # NotRun =>
    /\ outcome.isBoundary <=> (outcome.runs \in {4, 6} /\ ~outcome.isDismissal)
    /\ (~outcome.isBoundary /\ ~outcome.isDismissal) => outcome.runs \in 0..3

\* the simulation has returned a running outcome
C5_Witness ==
  /\ pc = "done"
  /\ outcome # NotRun
  /\ ~outcome.isBoundary
  /\ ~outcome.isDismissal
  /\ outcome.runs = 1

\* C6: in every outcome produced, a dismissal has 0 runs, type 'caught' and is no boundary,
\* and dismissalType is set only on a dismissal.
C6_DismissalConsistency ==
  outcome # NotRun =>
    /\ outcome.isDismissal =>
         /\ outcome.runs = 0
         /\ outcome.dismissalType = Some("caught")
         /\ ~outcome.isBoundary
    /\ ~outcome.isDismissal => outcome.dismissalType = Undefined

\* estimateRuns has answered a context that holds a catch and a six
C6_Witness ==
  /\ pc = "returned"
  /\ outcome # NotRun
  /\ IsDefined(estCtx.caughtInfo)
  /\ estCtx.isSix
  /\ outcome.isDismissal

\* a fielder reaches a sample: time is left after the reaction, and the planar distance is at
\* most max(maxSpeed, 3.2 m/s) times that time (run speeds are whole multiples of 0.1 m/s)
Reaches(sample, fielder) ==
  LET timeLeft == sample.time - fielder.reactionTime
      dmPerSecond == (IF fielder.maxSpeed > 320 THEN fielder.maxSpeed ELSE 320) \div 10
  IN /\ timeLeft > 0
     /\ 100 * ((sample.x - fielder.x) * (sample.x - fielder.x)
               + (sample.y - fielder.y) * (sample.y - fielder.y))
          <= (dmPerSecond * timeLeft) * (dmPerSecond * timeLeft)

Eligible(sample) ==
  sample.phase # "outOfPlay" /\ (sample.phase = "flight" => sample.z <= 120)

\* the samples up to and including the first boundary sample
Scanned(path) ==
  { i \in 1..Len(path) : \A j \in 1..(i - 1) : path[j].event \notin {"boundary-four", "boundary-six"} }

\* the eligible scanned samples some fielder of the roster reaches
Interceptable(path, fielders) ==
  { i \in Scanned(path) : Eligible(path[i]) /\ \E k \in 1..Len(fielders) : Reaches(path[i], fielders[k]) }

Earliest(indices) == CHOOSE i \in indices : \A j \in indices : i <= j

Returned == pc = "returned" /\ intercept # NotRun

Reachers(path, fielders) ==
  { k \in 1..Len(fielders) : Reaches(path[Earliest(Interceptable(path, fielders))], fielders[k]) }

ReportedIndex(fielders) == CHOOSE k \in 1..Len(fielders) : Some(fielders[k].id) = intercept.fielderId

\* C8 as claimed: the fielder reported is the first in roster order of those that reach the
\* earliest interceptable sample, whatever their pickupBuffer.
C8_FirstInRosterOrder ==
  Returned /\ IsDefined(intercept.fielderId) =>
    ReportedIndex(icArgs.fielders) = Earliest(Reachers(icArgs.path, icArgs.fielders))

\* the intercept time of roster entry k at the earliest interceptable sample
TimeAtEarliest(path, fielders, buffer, k) ==
  path[Earliest(Interceptable(path, fielders))].time + fielders[k].pickupBuffer
    + (IF buffer = <<>> THEN 10 ELSE buffer[1])

\* C8 as amended: the fielder reported is, of those that reach the earliest interceptable
\* sample, the one whose intercept time (sample time + pickupBuffer + buffer) is smallest,
\* and the first in roster order of those with that intercept time.
C8_SmallestInterceptTimeThenRosterOrder ==
  Returned /\ IsDefined(intercept.fielderId) =>
    LET fielders == icArgs.fielders
        k == ReportedIndex(fielders)
        T(j) == TimeAtEarliest(icArgs.path, fielders, icArgs.buffer, j)
    IN /\ k \in Reachers(icArgs.path, fielders)
       /\ \A j \in Reachers(icArgs.path, fielders) :
            T(k) < T(j) \/ (T(k) = T(j) /\ k <= j)

\* two fielders reach the sample and the second in the roster, with the smaller
\* pickupBuffer, is reported
C8_Witness ==
  /\ Returned
  /\ IsDefined(intercept.fielderId)
  /\ Cardinality(Reachers(icArgs.path, icArgs.fielders)) >= 2
  /\ ReportedIndex(icArgs.fielders) = 2
  /\ 1 \in Reachers(icArgs.path, icArgs.fielders)
  /\ icArgs.fielders[2].pickupBuffer < icArgs.fielders[1].pickupBuffer

\* C9: after an intercept without a catch, the returned path ends with the one synthetic
\* stopped sample at the intercept position and time, every other sample is earlier, and no
\* boundary sample is left: no outOfPlay phase, no boundary event, no boundaryTime, no six.
C9_SpliceEndsThePath ==
  Succeeded /\ ~IsDefined(caughtInfo) /\ IsDefined(intercept.fielderId) =>
    LET p == ret.path
        n == Len(p)
        interceptTime == Get(intercept.interceptTime)
        position == Get(intercept.interceptPosition)
    IN /\ p[n].phase = "stopped"
       /\ p[n].time = interceptTime
       /\ p[n].x = position.x /\ p[n].y = position.y /\ p[n].z = 0
       /\ p[n].vx = 0 /\ p[n].vy = 0 /\ p[n].vz = 0
       /\ \A i \in 1..(n - 1) : p[i].time < interceptTime /\ p[i].phase # "stopped"
       /\ \A i \in 1..n : p[i].phase # "outOfPlay" /\ p[i].event \notin {"boundary-four", "boundary-six"}
       /\ ret.boundaryTime = Undefined
       /\ ret.isSix = FALSE

\* C10: without an intercept, reachedBoundary tells whether the path holds a boundary
\* sample, for every roster, the empty one included; with an intercept it is false.
C10_ReachedBoundary ==
  Returned =>
    IF IsDefined(intercept.fielderId)
    THEN intercept.reachedBoundary = FALSE
    ELSE intercept.reachedBoundary
           = (\E i \in 1..Len(icArgs.path) : icArgs.path[i].event \in {"boundary-four", "boundary-six"})

-----------------------------------------------------------------------------
(* The catch evaluator *)

\* the catch evaluator has run on the path the integrator returned
CatchEvaluated == pc \in {"intercept", "estimate", "done"} /\ pathResult # NotRun
Integrated == ballPathResult(loc).samples

\* the planar distance is at most radius (cm) and at most max(maxSpeed, 5 m/s) times the
\* time left after the reaction, which is positive (run speeds are multiples of 0.1 m/s)
CatchableWithin(sample, fielder, radius) ==
  LET timeLeft == sample.time - fielder.reactionTime
      dmPerSecond == (IF fielder.maxSpeed > 500 THEN fielder.maxSpeed ELSE 500) \div 10
      squared == (sample.x - fielder.x) * (sample.x - fielder.x)
                   + (sample.y - fielder.y) * (sample.y - fielder.y)
  IN /\ timeLeft > 0
     /\ Abs(sample.x - fielder.x) <= radius
     /\ Abs(sample.y - fielder.y) <= radius
     /\ squared <= radius * radius
     /\ dmPerSecond * timeLeft >= 10 * radius
          \/ 100 * squared <= (dmPerSecond * timeLeft) * (dmPerSecond * timeLeft)

\* the samples before the first bounce sample that are in flight above the ground
BeforeFirstBounce(samples) ==
  { i \in 1..Len(samples) : \A j \in 1..i : samples[j].phase # "bounce" }
AirSamples(samples) ==
  { i \in BeforeFirstBounce(samples) : samples[i].phase = "flight" /\ samples[i].z > 0 }
AirCatchers(sample, fielders) ==
  { k \in 1..Len(fielders) : CatchableWithin(sample, fielders[k], 250) }
AirCatchSamples(samples, fielders) ==
  { i \in AirSamples(samples) : AirCatchers(samples[i], fielders) # {} }

\* the index in the integrator's path of the sample the catch was taken at
CatchIndex == Len(pathResult.samples)

\* C11: the catch in the air is taken at the earliest flight sample above the ground and
\* before the first bounce at which some fielder qualifies, by the first such fielder in
\* roster order; a catch taken when there is no such sample is at a bounce sample.
C11_AirCatchAtEarliestSample ==
  CatchEvaluated =>
    LET samples == Integrated
        hits == AirCatchSamples(samples, inp.fielders)
    IN IF hits # {}
       THEN LET i == Earliest(hits)
                k == Earliest(AirCatchers(samples[i], inp.fielders))
            IN /\ caughtInfo = Some([fielderId |-> inp.fielders[k].id, time |-> samples[i].time])
               /\ CatchIndex = i
       ELSE IsDefined(caughtInfo) => samples[CatchIndex].phase = "bounce"

\* a catch in the air at a sample two fielders qualify at, after a flight sample none
\* qualified at
C11_Witness ==
  /\ CatchEvaluated
  /\ IsDefined(caughtInfo)
  /\ CatchIndex \in AirSamples(Integrated)
  /\ CatchIndex >= 3
  /\ Cardinality(AirCatchers(Integrated[CatchIndex], inp.fielders)) >= 2
  /\ Get(caughtInfo).fielderId = inp.fielders[1].id

\* C12: after a catch the path is the integrator's path cut at the catch sample, which is
\* last, rewritten to phase and event stopped and otherwise unchanged, and the integrator's
\* boundary and roll data are invalidated: no boundarySample, no bounceSamples, stopSample
\* the catch sample, isSix false.
C12_CatchTruncatesAndInvalidates ==
  CatchEvaluated /\ IsDefined(caughtInfo) =>
    LET samples == Integrated
        n == CatchIndex
    IN /\ n \in 1..Len(samples)
       /\ samples[n].phase \in {"flight", "bounce"}
       /\ samples[n].time = Get(caughtInfo).time
       /\ pathResult.samples = Append(SubSeq(samples, 1, n - 1),
                                      [samples[n] EXCEPT !.phase = "stopped", !.event = "stopped"])
       /\ pathResult.boundarySample = Undefined
       /\ pathResult.bounceSamples = <<>>
       /\ pathResult.stopSample = pathResult.samples[n]
       /\ pathResult.isSix = FALSE

BounceSamples(samples) == { i \in 1..Len(samples) : samples[i].phase = "bounce" }
BounceCatchers(sample, fielders) ==
  { k \in 1..Len(fielders) : CatchableWithin(sample, fielders[k], 300) }

\* C13: the catch off the bounce is looked for only when no catch was taken in the air and
\* the path has a bounce sample; it is taken at the first bounce sample by the first fielder
\* in roster order within 3 m and within reach of it; no later bounce sample is looked at.
C13_BounceCatchAtFirstBounce ==
  CatchEvaluated =>
    LET samples == Integrated
        fielders == inp.fielders
    IN IF AirCatchSamples(samples, fielders) # {}
       THEN IsDefined(caughtInfo) /\ samples[CatchIndex].phase = "flight"
       ELSE IF BounceSamples(samples) = {}
       THEN caughtInfo = Undefined
       ELSE LET b == Earliest(BounceSamples(samples))
                catchers == BounceCatchers(samples[b], fielders)
            IN IF catchers = {}
               THEN caughtInfo = Undefined
               ELSE /\ caughtInfo = Some([fielderId |-> fielders[Earliest(catchers)].id,
                                          time |-> samples[b].time])
                    /\ CatchIndex = b

\* a catch off the first bounce that two fielders qualify for, taken by the first of them
C13_Witness ==
  /\ CatchEvaluated
  /\ IsDefined(caughtInfo)
  /\ AirCatchSamples(Integrated, inp.fielders) = {}
  /\ CatchIndex = Earliest(BounceSamples(Integrated))
  /\ Cardinality(BounceCatchers(Integrated[CatchIndex], inp.fielders)) >= 2
  /\ Get(caughtInfo).fielderId = inp.fielders[1].id

\* no fielder qualifies at the first bounce, one is within 3 m and within reach of a later
\* bounce sample, and no catch is taken
C13_LaterBounceIgnored ==
  /\ CatchEvaluated
  /\ caughtInfo = Undefined
  /\ \E i \in BounceSamples(Integrated) : BounceCatchers(Integrated[i], inp.fielders) # {}

-----------------------------------------------------------------------------
(* The integrator *)

\* the loops of computeBallPath and simulateRollPhase are deterministic in these locals
FlightLoopState == <<loc.time, loc.position, loc.velocity>>
RollLoopState == <<loc.time, loc.position, loc.currentSpeed>>

\* C14: computeBallPath terminates for every shot, field, timeStep and maxTime, and the
\* last sample the integrator produces has time at most maxTime.  Termination of the two
\* deterministic loops needs every iteration that stays in its loop to change the loop's
\* state; the time bound is on the integrator's clock, which stamps every sample.
C14_TerminatesWithinMaxTime ==
  /\ [](loc # NotStarted => loc.time <= maxTimeOf(inp.options))
  /\ [][/\ (pc = "flight" /\ pc' = "flight" => FlightLoopState' # FlightLoopState)
        /\ (pc = "roll" /\ pc' = "roll" => RollLoopState' # RollLoopState)]_vars

\* the integrator has returned
Computed == loc # NotStarted /\ pc \notin {"flight", "roll"}
Beyond(sample) ==
  sample.x * sample.x + sample.y * sample.y >= inp.field.boundaryRadius * inp.field.boundaryRadius

\* C16: the integrator's path has a boundary sample exactly when some step reaches the
\* boundary radius; it is made at the first such step (in the roll phase right behind the
\* roll sample of that step), it is the last sample, with phase outOfPlay; its event is
\* boundary-six if it was detected in flight above the rope and boundary-four otherwise,
\* in the roll phase always; isSix tells whether the event is boundary-six.
C16_BoundaryAtFirstCrossing ==
  Computed =>
    LET r == ballPathResult(loc)
        samples == r.samples
        n == Len(samples)
        crossings == { i \in 2..n : Beyond(samples[i]) }
        last == samples[n]
    IN /\ IsDefined(r.boundarySample) <=> crossings # {}
       /\ \A i \in 1..(n - 1) : samples[i].phase # "outOfPlay"
       /\ IsDefined(r.boundarySample) <=> last.phase = "outOfPlay"
       /\ r.isSix <=> last.event = "boundary-six"
       /\ crossings # {} =>
            /\ r.boundarySample = Some(last)
            /\ last.event \in {"boundary-four", "boundary-six"}
            /\ IF loc.isRolling
               THEN /\ crossings = {n - 1, n}
                    /\ samples[n - 1] = [last EXCEPT !.phase = "roll", !.event = "none"]
                    /\ last.event = "boundary-four"
               ELSE /\ crossings = {n}
                    /\ last.event = "boundary-six" <=> last.z > inp.field.ropeHeight

\* a six: the rope is crossed in flight above its height
C16_Witness ==
  /\ Computed
  /\ ~loc.isRolling
  /\ IsDefined(loc.boundarySample)
  /\ Get(loc.boundarySample).z > inp.field.ropeHeight
  /\ loc.isSix

\* the rope is crossed in flight below its height but above the ground
C16_LowCrossing ==
  /\ Computed
  /\ ~loc.isRolling
  /\ IsDefined(loc.boundarySample)
  /\ Get(loc.boundarySample).z > 0
  /\ ~loc.isSix

\* the rope is crossed in the roll phase
C16_RollCrossing == Computed /\ loc.isRolling /\ IsDefined(loc.boundarySample)

-----------------------------------------------------------------------------
(* The returned value *)

\* C17: the path a successful run returns ends out of play exactly when the outcome is a
\* boundary, and ends stopped exactly when the outcome is a dismissal or a running outcome
\* of 0 to 3 runs.
C17_LastPhaseMatchesOutcome ==
  Succeeded =>
    LET last == ret.path[Len(ret.path)]
        o == Get(ret.result).outcome
    IN /\ last.phase = "outOfPlay" <=> o.isBoundary
       /\ last.phase = "stopped" <=> (o.isDismissal \/ (~o.isBoundary /\ o.runs \in 0..3))

\* the integrator ended the path at the boundary, no catch was taken and a fielder's
\* intercept was spliced in: the returned path ends stopped and the outcome is a running one
C17_Witness ==
  /\ Succeeded
  /\ IsDefined(loc.boundarySample)
  /\ ~IsDefined(caughtInfo)
  /\ IsDefined(intercept.fielderId)
  /\ ret.path[Len(ret.path)].phase = "stopped"
  /\ ~Get(ret.result).outcome.isBoundary
  /\ ~Get(ret.result).outcome.isDismissal

\* a stage threw: the shot passed validation and the run returned without a result
Faulted ==
  /\ pc = "done"
  /\ IsDefined(inp.shot)
  /\ ~ShotInvalid(Get(inp.shot))
  /\ ~IsDefined(ret.result)

\* C18: an exception raised by a stage does not cross the call boundary: the run returns
\* an empty path, a null result and an error, and the error is the generic
\* simulation-failed error, not the fault that was raised.
C18_FaultsBecomeGenericError ==
  Faulted =>
    /\ ret.path = <<>>
    /\ ret.result = Undefined
    /\ ret.boundaryTime = Undefined
    /\ ret.isSix = FALSE
    /\ ret.error = Some("Failed to run simulation")

-----------------------------------------------------------------------------
(* The runs estimator *)

\* estimateRuns took a running branch, with this time available to the batsmen
Running == pc = "returned" /\ outcome # NotRun /\ ~outcome.isBoundary /\ ~outcome.isDismissal
AvailableTime ==
  IF IsDefined(estCtx.interception) /\ HasIntercept(Get(estCtx.interception))
  THEN Get(Get(estCtx.interception).interceptTime)
  ELSE estCtx.stopSample.time + 80

\* the sum and the number of the runner speeds, each capped at 8.1 m/s; 6.2 m/s for no batsmen
CappedSpeeds(batsmen) ==
  IF batsmen = <<>> THEN <<620>>
  ELSE [k \in 1..Len(batsmen) |-> IF batsmen[k].runnerSpeed < 810 THEN batsmen[k].runnerSpeed ELSE 810]
RECURSIVE SumOf(_)
SumOf(speeds) == IF speeds = <<>> THEN 0 ELSE Head(speeds) + SumOf(Tail(speeds))

\* time (cs) < runs * pitchLength / avgSpeed + margin (cs), for avgSpeed = sum / number > 0
Before(time, runs, margin, batsmen, pitchLength) ==
  (time - margin) * SumOf(CappedSpeeds(batsmen))
    < runs * 100 * pitchLength * Len(CappedSpeeds(batsmen))

\* C19: runsFromAvailableTime returns 0 below single, 1 from single to below double, 2 from
\* double to below triple and 3 from triple on, for single = pitchLength / avgSpeed + 0.55,
\* double = 2 single + 0.45 and triple = double + single + 0.6; it never returns more than
\* 3 and never less for a longer time.
C19_RunsByThresholds ==
  Running =>
    LET t == AvailableTime
        b == estCtx.batsmen
        L == estCtx.fieldConfig.pitchLength
        expected == IF Before(t, 1, 55, b, L) THEN 0
                    ELSE IF Before(t, 2, 155, b, L) THEN 1
                    ELSE IF Before(t, 3, 270, b, L) THEN 2
                    ELSE 3
    IN /\ outcome.runs = expected
       /\ outcome.runs <= 3
       /\ \A later \in t..(150 * MaxEstTime + 80) :
            runsFromAvailableTime(later, b, estCtx.fieldConfig) \in outcome.runs..3

\* two runs for a batsman whose speed is over the cap
C19_Witness ==
  /\ Running
  /\ estCtx.batsmen = <<Batsman("striker", 900)>>
  /\ outcome.runs = 2

-----------------------------------------------------------------------------
(* Roster order *)

\* the rosters that hold the same fielders as roster, in any order
RosterOrders(roster) ==
  { q \in [1..Len(roster) -> { roster[k] : k \in 1..Len(roster) }] :
      \A k \in 1..Len(roster) : \E j \in 1..Len(roster) : q[j] = roster[k] }

\* the outcome of the run had the roster been given as q
OutcomeFor(q) == simulationOutcome(ballPathResult(loc), inp.field, q, inp.batsmen, inp.options)

\* two or more fielders qualify for the catch at the catch sample, or reach the earliest
\* interceptable sample with the intercept time reported
Tied ==
  IF IsDefined(caughtInfo)
  THEN LET sample == Integrated[CatchIndex]
       IN Cardinality(IF sample.phase = "flight" THEN AirCatchers(sample, inp.fielders)
                      ELSE BounceCatchers(sample, inp.fielders)) >= 2
  ELSE /\ IsDefined(intercept.fielderId)
       /\ Cardinality({ k \in Reachers(icArgs.path, inp.fielders) :
                          TimeAtEarliest(icArgs.path, inp.fielders, icArgs.buffer, k)
                            = Get(intercept.interceptTime) }) >= 2

\* C20 as claimed: the outcome is the same for every order of the roster.
C20_RosterOrderIrrelevant ==
  Succeeded =>
    \A q \in RosterOrders(inp.fielders) : OutcomeFor(q) = Get(ret.result).outcome

\* C20 as amended: for every order of the roster the outcome has the same runs, isBoundary,
\* isDismissal, dismissalType, interceptTime and boundaryTime; interceptedBy differs only
\* when fielders are tied for the catch or for the intercept.
C20_RosterOrderOnlyBreaksTies ==
  Succeeded =>
    /\ OutcomeFor(inp.fielders) = Get(ret.result).outcome
    /\ \A q \in RosterOrders(inp.fielders) :
         /\ [OutcomeFor(q) EXCEPT !.interceptedBy = Undefined]
              = [Get(ret.result).outcome EXCEPT !.interceptedBy = Undefined]
         /\ OutcomeFor(q).interceptedBy # Get(ret.result).outcome.interceptedBy => Tied

\* two fielders reach the earliest interceptable sample, the second of the roster has the
\* smaller pickupBuffer and is reported, as it is when the roster is reversed
C20_Witness ==
  /\ Succeeded
  /\ Len(inp.fielders) = 2
  /\ ~IsDefined(caughtInfo)
  /\ intercept.fielderId = Some(inp.fielders[2].id)
  /\ Cardinality(Reachers(icArgs.path, inp.fielders)) = 2
  /\ inp.fielders[2].pickupBuffer < inp.fielders[1].pickupBuffer
  /\ OutcomeFor(<<inp.fielders[2], inp.fielders[1]>>) = Get(ret.result).outcome

\* the reversed roster names another fielder
C20_TieBroken ==
  /\ Succeeded
  /\ Len(inp.fielders) = 2
  /\ OutcomeFor(<<inp.fielders[2], inp.fielders[1]>>).interceptedBy
       # Get(ret.result).outcome.interceptedBy

-----------------------------------------------------------------------------
(* The roll phase *)

\* the samples of phase roll in the integrator's path
RollSamples(samples) == { i \in 1..Len(samples) : samples[i].phase = "roll" }

\* C21: from the roll-start sample to the last roll sample the speed never increases from
\* one roll sample to the next, for every friction level and every timeStep > 0; a roll
\* phase that no boundary crossing ends is closed by a stopped sample of zero velocity.
C21_RollSpeedNeverIncreases ==
  loc # NotStarted /\ timeStepOf(inp.options) > 0 =>
    /\ \A i \in RollSamples(loc.samples) :
         i + 1 \in RollSamples(loc.samples) => loc.samples[i + 1].speed <= loc.samples[i].speed
    /\ Computed /\ loc.isRolling =>
         LET last == loc.samples[Len(loc.samples)]
         IN IF IsDefined(loc.boundarySample)
            THEN last.phase = "outOfPlay"
            ELSE /\ last.phase = "stopped"
                 /\ last.vx = 0 /\ last.vy = 0 /\ last.vz = 0
                 /\ last.speed = 0
                 /\ loc.samples[Len(loc.samples) - 1].phase = "roll"

\* on a slow field the ball has rolled over four steps or more, losing speed at one of them,
\* down to the speed it is taken to have stopped at
C21_Witness ==
  /\ Computed
  /\ loc.isRolling
  /\ inp.field.friction = "slow"
  /\ ~IsDefined(loc.boundarySample)
  /\ Cardinality(RollSamples(loc.samples)) >= 5
  /\ loc.currentSpeed <= MIN_ROLLING_SPEED
  /\ loc.time < maxTimeOf(inp.options)
  /\ \E i \in RollSamples(loc.samples) :
       i + 1 \in RollSamples(loc.samples) /\ loc.samples[i + 1].speed < loc.samples[i].speed
  /\ loc.samples[Len(loc.samples)].phase = "stopped"

-----------------------------------------------------------------------------
(* The fielder's run *)

\* a fielder that starts from rest, gains speed at its acceleration up to maxSpeed and then
\* holds it, covers the distance (cm, squared) within timeAvailable (cs): within
\* acceleration * t^2 / 2 while it still gains speed, and within
\* maxSpeed * (t - maxSpeed / (2 acceleration)) after that
CoversFromRest(distSq, fielder, timeAvailable) ==
  LET a == fielder.acceleration
      v == fielder.maxSpeed
      d == ISqrt(distSq)
  IN /\ timeAvailable > 0
     /\ IF 100 * v >= a * timeAvailable
        THEN 20000 * d <= a * timeAvailable * timeAvailable
        ELSE 200 * a * d <= v * (2 * a * timeAvailable - 100 * v)

\* C22: the interception search accounts for the fielder's acceleration: the fielder it
\* names can cover the distance to the intercepted sample in the time the sample leaves
\* after the reaction, starting from rest and gaining speed at its acceleration.
C22_ReachAccountsForAcceleration ==
  Returned /\ IsDefined(intercept.fielderId) =>
    \A k \in 1..Len(icArgs.fielders) :
      icArgs.fielders[k].id = Get(intercept.fielderId) =>
        LET fielder == icArgs.fielders[k]
            position == Get(intercept.interceptPosition)
            sampleTime == Get(intercept.interceptTime) - fielder.pickupBuffer
                            - OrElse(icArgs.buffer, DEFAULT_BUFFER)
        IN CoversFromRest(distance2D(position, fielder), fielder,
                          sampleTime - fielder.reactionTime)

-----------------------------------------------------------------------------
(* The intercept time the simulation reports *)

\* the run has returned a result whose interception names a fielder, and the caller gave
\* no interceptBuffer
NamedWithoutBuffer ==
  /\ Succeeded
  /\ inp.options.interceptBuffer = Undefined
  /\ IsDefined(intercept.fielderId)

\* the interception names a fielder that reaches the first interceptable sample of the path
\* searched, at that sample's time + the fielder's pickupBuffer + extra
TimedAtMatchedSample(extra) ==
  LET path == icArgs.path
      i == Earliest(Interceptable(path, inp.fielders))
      ic == Get(Get(ret.result).interception)
  IN /\ ic = intercept
     /\ \E k \in 1..Len(inp.fielders) :
          /\ Reaches(path[i], inp.fielders[k])
          /\ ic.fielderId = Some(inp.fielders[k].id)
          /\ ic.interceptTime = Some(path[i].time + inp.fielders[k].pickupBuffer + extra)

\* C23 as claimed: without an interceptBuffer option the intercept time of the result's
\* interception and of the outcome is the matched sample's time + the fielder's pickupBuffer
\* + 0.1 s.
C23_DefaultBufferTenth ==
  NamedWithoutBuffer =>
    /\ TimedAtMatchedSample(10)
    /\ Get(ret.result).outcome.interceptTime = intercept.interceptTime

\* C23 as amended: without an interceptBuffer option the intercept time of the result's
\* interception is the matched sample's time + the fielder's pickupBuffer + 0.2 s; the
\* outcome's intercept time is that time when no catch was taken, and the time of the catch
\* sample otherwise.
C23_DefaultBufferFifth ==
  NamedWithoutBuffer =>
    /\ TimedAtMatchedSample(20)
    /\ Get(ret.result).outcome.interceptTime
         = IF IsDefined(caughtInfo) THEN Some(Get(caughtInfo).time) ELSE intercept.interceptTime

\* no buffer was given, no catch was taken and the outcome reports the fielder's intercept
C23_Witness ==
  /\ NamedWithoutBuffer
  /\ ~IsDefined(caughtInfo)
  /\ Get(ret.result).outcome.interceptedBy = intercept.fielderId
  /\ Get(ret.result).outcome.interceptTime = intercept.interceptTime

\* no buffer was given and a catch was taken before the sample the search matched
C23_CaughtBeforeIntercept ==
  /\ NamedWithoutBuffer
  /\ IsDefined(caughtInfo)
  /\ Get(caughtInfo).time < Get(intercept.interceptTime)

-----------------------------------------------------------------------------
(* The order of the phases *)

\* the bounce samples whose vertical speed after the bounce is below 1.2 m/s
LowBounces(samples) ==
  { i \in 1..Len(samples) : samples[i].phase = "bounce" /\ Abs(samples[i].vz) < 120 }

\* C24: the integrator's path starts with the launch sample (flight, launch, time 0); flight
\* and bounce samples follow; the first roll sample comes right behind the first bounce
\* sample whose vertical speed after the bounce is below 1.2 m/s, and there is one whenever
\* there is such a bounce; no flight or bounce sample follows a roll sample; the path
\* returned holds exactly one terminal sample (stopped or outOfPlay), its last.
C24_PhaseOrder ==
  loc # NotStarted =>
    LET samples == IF Computed THEN ballPathResult(loc).samples ELSE loc.samples
        n == Len(samples)
        rolls == RollSamples(samples)
        low == LowBounces(samples)
    IN /\ samples[1].phase = "flight" /\ samples[1].event = "launch" /\ samples[1].time = 0
       /\ \A i \in 2..n : samples[i].event # "launch"
       /\ \A i \in 1..n : samples[i].phase \in {"flight", "bounce", "roll", "stopped", "outOfPlay"}
       /\ \A i \in rolls : \A j \in (i + 1)..n : samples[j].phase \notin {"flight", "bounce"}
       /\ rolls # {} <=> low # {}
       /\ rolls # {} => /\ Cardinality(low) = 1
                        /\ Earliest(rolls) = Earliest(low) + 1
                        /\ samples[Earliest(rolls)].time = samples[Earliest(low)].time
       /\ \A i \in 1..(n - 1) : ~Terminal(samples[i])
       /\ Computed <=> Terminal(samples[n])

\* the ball bounced high, bounced low, rolled and stopped
C24_Witness ==
  /\ Computed
  /\ Cardinality(BounceSamples(loc.samples)) >= 2
  /\ Cardinality(RollSamples(loc.samples)) >= 2
  /\ \E i \in BounceSamples(loc.samples) : Abs(loc.samples[i].vz) >= 120
  /\ Terminal(ballPathResult(loc).samples[Len(ballPathResult(loc).samples)])

\* the clock ran out in flight and the path was closed by a stopped sample
C24_TimedOutInFlight ==
  /\ Computed
  /\ ~loc.isRolling
  /\ ~IsDefined(loc.boundarySample)
  /\ ballPathResult(loc).samples[Len(loc.samples) + 1].phase = "stopped"

-----------------------------------------------------------------------------
(* The shot state *)

Mounted == shotState # NotMounted

\* a step of useShotState: the component has not rendered the simulation yet
ShotStateStep == pc = "edit" /\ pc' = "edit"

\* C25: the azimuth is in [0, 360), the elevation in [0, 60] and spinRpm is a non-negative
\* integer; right after updateAzimuth the azimuth is the argument modulo 360, right after
\* updateElevation the elevation is the argument clamped to [0, 60], right after updateSpin
\* spinRpm is the argument rounded to the nearest integer (0 for a negative one), right
\* after reset the shot is the initial shot; updateAzimuth, updateElevation and updateSpin change their own
\* field only.  As every other operation leaves the field alone, the field keeps the value
\* of the last update of it.
C25_UpdatesNormaliseOwnField ==
  /\ [](Mounted =>
         /\ shotState.azimuth.fin /\ shotState.azimuth.v >= 0 /\ shotState.azimuth.v < 360
         /\ shotState.elevation.fin /\ shotState.elevation.v >= 0 /\ shotState.elevation.v <= 60
         /\ shotState.spinRpm \in Nat
         /\ call.op = "updateAzimuth" => shotState.azimuth.v = call.value % 360
         /\ call.op = "updateElevation" =>
              shotState.elevation.v = (IF call.value < 0 THEN 0
                                       ELSE IF call.value > 60 THEN 60 ELSE call.value)
         /\ call.op = "updateSpin" =>
              /\ 10 * shotState.spinRpm - call.value \in -4..5 \/ shotState.spinRpm = 0
              /\ shotState.spinRpm = 0 <=> call.value < 5
         /\ call.op = "reset" =>
              shotState = [ speed |-> Num(3000), azimuth |-> Num(0), elevation |-> Num(10),
                            launchPosition |-> Vec(0, 0, 100), spinRpm |-> 1500 ])
  /\ [][ShotStateStep =>
          /\ call'.op = "updateAzimuth" =>
               shotState' = [shotState EXCEPT !.azimuth = shotState'.azimuth]
          /\ call'.op = "updateElevation" =>
               shotState' = [shotState EXCEPT !.elevation = shotState'.elevation]
          /\ call'.op = "updateSpin" =>
               shotState' = [shotState EXCEPT !.spinRpm = shotState'.spinRpm]]_vars

\* the elevation was set from 70 and the spin from 1500.5, then the azimuth from -270: the
\* shot points at 90 degrees, 60 degrees up, with 1501 rpm and the speed it started with
C25_Witness ==
  /\ Mounted
  /\ call = [op |-> "updateAzimuth", value |-> -270]
  /\ shotState.azimuth = Num(90)
  /\ shotState.elevation = Num(60)
  /\ shotState.spinRpm = 1501
  /\ shotState.speed = Num(3000)

\* C26: every shot reached from the default shot through updateSpeed, updateAzimuth,
\* updateElevation, updateSpin and reset has speed > 0, and the simulation run on it returns
\* no validation error.
C26_SpeedStaysPositive ==
  Mounted =>
    /\ shotState.speed.fin /\ shotState.speed.v > 0
    /\ pc = "done" => ret.error = Undefined /\ IsDefined(ret.result)

-----------------------------------------------------------------------------
(* Sixes *)

\* C27: no bounce sample precedes a boundary-six sample in the integrator's path, and isSix
\* is set only on a path without a bounce sample.
C27_NoSixAfterBounce ==
  loc # NotStarted =>
    /\ \A i \in 1..Len(loc.samples) :
         loc.samples[i].event = "boundary-six" =>
           \A j \in 1..(i - 1) : loc.samples[j].phase # "bounce"
    /\ loc.isSix => loc.bounceSamples = <<>>

-----------------------------------------------------------------------------
(* Where the ball is intercepted *)

\* C28: for a launch position inside the boundary, the position of an interception that
\* names a fielder is strictly inside the field: closer to the origin than boundaryRadius.
C28_InterceptInsideTheRope ==
  /\ intercept # NotRun
  /\ inp # NotRun
  /\ IsDefined(intercept.fielderId)
  /\ ~Beyond(Get(inp.shot).launchPosition)
  => ~Beyond(Get(intercept.interceptPosition))

-----------------------------------------------------------------------------
(* The result packaged *)

\* C29: when the outcome is a dismissal, the interception packaged in the same result
\* names no fielder or names the catcher.
C29_InterceptionNamesTheCatcher ==
  Succeeded /\ Get(ret.result).outcome.isDismissal =>
    LET ic == Get(Get(ret.result).interception)
    IN ic.fielderId = Undefined \/ ic.fielderId = Get(ret.result).outcome.interceptedBy

\* C30: in a successful result isSix holds exactly when the outcome has 6 runs, boundaryTime
\* is defined exactly when the outcome is a boundary and is then the outcome's boundaryTime,
\* and path is the sample sequence of the result, which is not empty.
C30_TopLevelAgreesWithOutcome ==
  Succeeded =>
    LET r == Get(ret.result)
    IN /\ ret.isSix <=> r.outcome.runs = 6
       /\ IsDefined(ret.boundaryTime) <=> r.outcome.isBoundary
       /\ r.outcome.isBoundary => ret.boundaryTime = r.outcome.boundaryTime
       /\ ~r.outcome.isBoundary => r.outcome.boundaryTime = Undefined
       /\ ret.path = r.samples
       /\ Len(ret.path) > 0
       /\ ret.error = Undefined

\* a six has been returned
C30_Witness ==
  /\ Succeeded
  /\ ret.isSix
  /\ Get(ret.result).outcome.runs = 6
  /\ IsDefined(ret.boundaryTime)
  /\ ret.boundaryTime = Get(ret.result).outcome.boundaryTime

\* a ball on its way over the rope for six was caught: no six and no boundary time are
\* returned
C30_CaughtOnTheWayToSix ==
  /\ Succeeded
  /\ loc.isSix
  /\ IsDefined(caughtInfo)
  /\ ~ret.isSix
  /\ ret.boundaryTime = Undefined

\* a fielder got to a ball that went on to the rope: no boundary time is returned
C30_FieldedBeforeTheRope ==
  /\ Succeeded
  /\ IsDefined(loc.boundarySample)
  /\ ~IsDefined(caughtInfo)
  /\ ~Get(ret.result).outcome.isBoundary
  /\ ret.boundaryTime = Undefined

====
